---- MODULE Spec2Model ----
(***************************************************************************)
(* Two-phase artifact scraper (scripts/scrape-github.mjs, v4):             *)
(*   discover : GitHub search -> raw_repos (staging table)                 *)
(*   enrich   : raw_repos -> Gemini -> artifacts, with write-back of the   *)
(*              per-row result to raw_repos                                *)
(* The Supabase tables are modelled as values, every REST call as one      *)
(* atomic step whose failure is a nondeterministic choice.                 *)
(***************************************************************************)
EXTENDS Integers, Sequences, FiniteSets, TLC

\* ------------------------------------------------------------------ bounds
\* Repositories the search API can return, in descending star order.
RepoOrder == <<"acme/a", "acme/b", "zeta/c">>
Repos == {RepoOrder[i] : i \in 1..Len(RepoOrder)}

\* Scaled-down sizes (the script uses 20, 20, 100, 30, 34).
BATCH_SIZE == 2
WAVE_SIZE == 2
FLUSH_SIZE == 2
PER_PAGE == 2
PAGE_CAP == 3
\* Rows of one write the store rejects (malformed row, slug conflict).
MaxBad == 1
\* Failed requests (store, network) injected along one behaviour.
MaxFaults == 1
\* Runs the cron trigger starts along one behaviour.
MaxRuns == 3
\* Candidates staged when two enrich runs overlap.
ConcStaged == 1
\* Items of one batched classification call.
MaxBatchItems == 3
\* Results the search API returns for one query at most (1,000 at GitHub).
ApiCap == 3
\* Matches of a query in one star range.
MaxPerBucket == 5
\* Parallel Gemini calls (5 in the source) and items of one wave.
ENRICH_CONCURRENCY == 2
MaxPoolItems == 4
\* Largest --discover-limit tried (0 = no cap).
MaxCap == 2
\* Longest tag list a classification answer carries.
MaxTags == 9
\* Largest --enrich-limit tried, and most selectable rows of one type hint.
MaxLimit == 50
MaxAvail == 26
\* Most points a source reports for a mention.
MaxPoints == 1
\* Most mentions of one artifact in the 30-day window.
MaxMentions == 7
\* Most stars and forks of a repository.
MaxStars == 550
MaxForks == 76

\* ------------------------------------------------------- program constants
MAX_ENRICH_ATTEMPTS == 3

GITHUB_MAX_RETRIES == 4

\* `retries = 2` of enrichBatchWithGemini (scrape-bigquery.mjs).
BATCH_RETRIES == 2

VALID_TYPES == {"mcp-server", "skill"}

\* Two of the labels of CATEGORY_LABEL_TO_SLUG, two of GEMINI_PLATFORMS.
GEMINI_CATEGORIES == {"AI / ML", "Backend"}

GEMINI_PLATFORMS == {"Cursor", "n8n"}

\* `p.tags.slice(0, 7)`.
TAGS_KEPT == 7

\* `Math.max(20, ...)` of perTypeLimit.
PER_TYPE_FLOOR == 20

\* The hints of SEARCH_QUERIES, in first-occurrence order.
typeHints == <<"mcp-server", "skill">>

\* The queries of a `--type skill` discovery: one bucketed, one not.
SEARCH_QUERIES ==
  << [hint |-> "skill", pages |-> 3, bucketed |-> TRUE],
     [hint |-> "skill", pages |-> 1, bucketed |-> FALSE] >>

STAR_BUCKETS == <<"stars:>1", "stars:0..1">>

\* artifact_types rows loadLookups can find: every scraper slug, or only
\* the slugs the database shares with the scraper.
TypeMaps == {VALID_TYPES, {"skill"}}

Procs == {1, 2}

VARIABLES
  raw_repos,           \* staging table: github_full_name -> row
  artifacts,           \* set of artifact rows [id, github_repo_full_name]
  artifact_platforms,  \* artifact ids that have junction rows
  failCount,           \* per repository, runs in which its enrichment failed
  faults,              \* failed requests injected so far
  runs,                \* runs started so far
  mode,                \* per process: "none" | "discover" | "enrich"
  pc,                  \* per process: position in the run
  expired,             \* per process: timeExpired() would return true
  bad,                 \* per process: rows the store rejects in this run
  dis,                 \* per process: locals of runDiscover / searchRepos
  enr,                 \* per process: locals of runEnrich / upsertArtifacts
  gf,                  \* locals of one githubFetch call
  bat,                 \* locals of one enrichBatchWithGemini call
  part,                \* one bucketed query against the search API
  pool,                \* locals of one enrichBatchConcurrent call
  val,                 \* one answer on its way through validation
  sel,                 \* the selection of one runEnrich(limit)
  men,                 \* artifact_mentions and the vibe-score run writing it
  vibe,                \* the vibe score of one artifact: computed, stored, shown
  trend,               \* the trending score of one repository
  ex,                  \* one candidate scored end to end
  rep,                 \* one answer on its way through repairJSON
  lnk,                 \* one README on its way through extractGithubLinks
  slg                  \* the artifacts table under its slug constraint

\* The state of the run loops of scrape-github.mjs.
pipeVars == <<raw_repos, artifacts, artifact_platforms, failCount, faults, runs,
              mode, pc, expired, bad, dis, enr>>

\* The state of the calls that are modelled on their own.
subVars == <<gf, bat, part, pool, val, sel, men, vibe, trend, ex, rep, lnk, slg>>

vars == <<pipeVars, subVars>>

\* ------------------------------------------------------------------ helpers
Min(a, b) == IF a < b THEN a ELSE b

SeqToSet(s) == {s[i] : i \in 1..Len(s)}

\* `order=stars.desc` / pending.sort: the members of S by descending stars.
SortByStars(S) == SelectSeq(RepoOrder, LAMBDA r : r \in S)

Slice(s, start, n) == SubSeq(s, start + 1, Min(start + n, Len(s)))

\* ------------------------------------------------------------ staging store
\* Column defaults of CREATE TABLE raw_repos.
RawDefaults ==
  [enrichment_status |-> "pending", enrich_attempts |-> 0, artifact_id |-> 0,
   type_hint |-> "skill"]

\* PostgREST merge-duplicates / PATCH: the columns of the payload replace
\* the row's, every other column keeps its value.
MergeRow(old, payload) ==
  [f \in DOMAIN old |-> IF f \in DOMAIN payload THEN payload[f] ELSE old[f]]

repoToRawRowResetting(repo, hint) ==
  [github_full_name |-> repo, type_hint |-> hint,
   enrichment_status |-> "pending", enrich_attempts |-> 0]

\* The columns repoToRawRow sends that the model keeps: the key and the
\* hint. It sends no enrichment_status, enrich_attempts or artifact_id.
repoToRawRow(repo, hint) ==
  [github_full_name |-> repo, type_hint |-> hint]

\* sbUpsert('raw_repos', rows, 'github_full_name') when the request succeeds.
sbUpsertRaw(store, rows) ==
  LET names == {rows[i].github_full_name : i \in 1..Len(rows)}
      payload(r) == rows[CHOOSE i \in 1..Len(rows) : rows[i].github_full_name = r]
  IN [r \in DOMAIN store \cup names |->
        IF r \in names
        THEN MergeRow(IF r \in DOMAIN store THEN store[r] ELSE RawDefaults, payload(r))
        ELSE store[r]]

\* sbPatch('raw_repos', <filter on one row>, patch) when the request succeeds.
sbPatchRaw(store, r, patch) ==
  IF r \in DOMAIN store THEN [store EXCEPT ![r] = MergeRow(@, patch)] ELSE store

\* The rows one sbGet of runEnrich returns for a hint.
listPending(store, hint) ==
  {r \in DOMAIN store :
     /\ store[r].enrichment_status \in {"pending", "failed"}
     /\ store[r].type_hint = hint
     /\ store[r].enrich_attempts < MAX_ENRICH_ATTEMPTS}

\* ----------------------------------------------------------- artifact store
HasArtifact(arts, r) == \E a \in arts : a.github_repo_full_name = r

ArtifactId(arts, r) == (CHOOSE a \in arts : a.github_repo_full_name = r).id

Rank(r) == CHOOSE i \in 1..Len(RepoOrder) : RepoOrder[i] = r

\* gen_random_uuid(): an id no row of the table has.
FreshId(arts, r) ==
  Rank(r) + Len(RepoOrder) * Cardinality({a \in arts : a.github_repo_full_name = r})

sbUpsertArtifactsInsertOnly(arts, batch) ==
  arts \cup {[id |-> FreshId(arts, batch[i]), github_repo_full_name |-> batch[i]] :
               i \in 1..Len(batch)}

\* sbUpsert('artifacts', rows, 'github_repo_full_name') when it succeeds:
\* insert the rows whose repository has no artifact, update the others.
sbUpsertArtifacts(arts, batch) ==
  LET new == SelectSeq(batch, LAMBDA r : ~HasArtifact(arts, r))
  IN arts \cup {[id |-> FreshId(arts, new[i]), github_repo_full_name |-> new[i]] :
                  i \in 1..Len(new)}

\* --------------------------------------------------------- process locals
DisInit ==
  [qi |-> 1, bi |-> 1, page |-> 1, consecutiveEmpty |-> 0, repos |-> <<>>,
   seen |-> {}, repoBuffer |-> <<>>, stoppedByBudget |-> FALSE, cap |-> 0,
   submitted |-> {}, rejected |-> {}, fellBack |-> FALSE]

EnrInit ==
  [hintIdx |-> 1, rows |-> <<>>, pending |-> <<>>, start |-> 0, j |-> 1,
   enrichments |-> <<>>, built |-> <<>>, TYPE_MAP |-> {}, ub |-> 0, ui |-> 1,
   written |-> {}, updated |-> {}, rejected |-> {}, junctionFailed |-> {},
   linkTried |-> {}, builtAll |-> {}, fellBack |-> FALSE]

\* The outcomes of a request that can fail: success always, failure while
\* the fault budget lasts.
Outcomes == IF faults < MaxFaults THEN {TRUE, FALSE} ELSE {TRUE}

Spend(ok) == IF ok THEN faults ELSE faults + 1

BadSets ==
  IF faults < MaxFaults
  THEN {S \in SUBSET Repos : Cardinality(S) <= MaxBad}
  ELSE {{}}

\* A JSON value where the schema wants an array: an array of items, a
\* string (its text names the items), or nothing.
Absent == [kind |-> "absent", items |-> <<>>]

ArrayOf(items) == [kind |-> "array", items |-> items]

StringOf(items) == [kind |-> "string", items |-> items]

\* What JSON.parse hands validateEnrichment when it is no object.
NullAnswer ==
  [object |-> FALSE, artifact_type |-> "", category |-> "",
   compatible_platforms |-> Absent, tags |-> Absent]

\* No githubFetch call is running.
GfIdle ==
  [pc |-> "idle", attempt |-> 0, requests |-> 0, status |-> 0,
   proactive |-> 0, backoff |-> 0, onlyRateLimited |-> TRUE, result |-> "none",
   untilReset |-> 0]

\* No enrichBatchWithGemini call is running.
BatIdle ==
  [pc |-> "idle", n |-> 0, attempt |-> 0, outcomes |-> <<>>, j |-> 1,
   singles |-> {}, results |-> <<>>, via |-> "none"]

\* No bucketed query is running.
PartIdle ==
  [pc |-> "idle", cnt |-> [b \in 1..Len(STAR_BUCKETS) |-> 0], bi |-> 1,
   page |-> 1, seen |-> {}]

\* No enrichBatchConcurrent call is running.
PoolIdle ==
  [pc |-> "idle", n |-> 0, nextIdx |-> 0, workers |-> <<>>, results |-> <<>>,
   claimed |-> <<>>, storedFor |-> <<>>]

\* No answer is being validated.
ValIdle ==
  [pc |-> "idle", p |-> NullAnswer, hint |-> "", TYPE_MAP |-> {},
   out |-> NullAnswer, artifact |-> FALSE]

\* No runEnrich selection is running.
SelIdle ==
  [pc |-> "idle", limit |-> 0, avail |-> [h \in 1..Len(typeHints) |-> 0],
   hintIdx |-> 1, pending |-> 0, processed |-> 0]

\* (source, external_id) pairs the mention sources can report, and the
\* ids of the artifacts loadArtifacts returns.
MentionKeys == {"hackernews:1", "hackernews:2"}

VibeArtifacts == {1, 2}

\* No vibe-score run is running; artifact_mentions is empty.
MenIdle ==
  [pc |-> "idle", table |-> <<>>, before |-> <<>>, ai |-> 1,
   points |-> [k \in MentionKeys |-> 0],
   allMentions |-> [a \in VibeArtifacts |-> {}]]

\* The inputs of computeVibeScore for an artifact without any signal
\* (sentiment in twentieths).
NoSignals ==
  [npmDownloads |-> 0, pypiDownloads |-> 0, mentions7d |-> 0, mentions30d |-> 0,
   avgScore |-> 0, sentimentAvg |-> 0]

NoComponents ==
  [download |-> 0, mention |-> 0, quality |-> 0, sentiment |-> 0, recency |-> 0]

\* Defaults of the vibe columns of artifacts (004_vibe_score.sql).
VibeColumns ==
  [vibe_score |-> 0, npm_downloads_weekly |-> 0, pypi_downloads_weekly |-> 0,
   mention_count_7d |-> 0, mention_count_30d |-> 0, sentiment_avg |-> 0]

\* No artifact is being scored.
VibeIdle ==
  [pc |-> "idle", input |-> NoSignals, components |-> NoComponents, score |-> 0,
   stored |-> VibeColumns, shown |-> NoComponents]

\* buildArtifact is not running.
TrendIdle ==
  [pc |-> "idle", stars |-> 0, forks |-> 0, daysAgo |-> 0, trendingScore |-> 0,
   before |-> 0, grew |-> FALSE]

\* No candidate is being scored.
ExIdle ==
  [pc |-> "idle", stars |-> 0, forks |-> 0, daysAgo |-> 0, trendingScore |-> 0,
   input |-> NoSignals, vibeScore |-> 0]

\* What JSON.parse returns for `null`, and for nothing parsed yet.
JsonNull == [kind |-> "null", items |-> <<>>]

\* No repairJSON call is in progress.
RepIdle ==
  [pc |-> "idle", raw |-> <<>>, threw |-> FALSE, stage |-> 0,
   result |-> JsonNull]

\* No README is being parsed.
LnkIdle == [pc |-> "idle", markdown |-> <<>>, lastIndex |-> 0, links |-> <<>>]

\* The artifacts table with its slugs, and no artifact on its way to it.
SlgIdle ==
  [pc |-> "idle", artifacts |-> {},
   row |-> [slug |-> <<>>, github_repo_full_name |-> <<>>]]

SubInit ==
  /\ gf = GfIdle /\ bat = BatIdle /\ part = PartIdle /\ pool = PoolIdle
  /\ val = ValIdle
  /\ sel = SelIdle
  /\ men = MenIdle
  /\ vibe = VibeIdle
  /\ trend = TrendIdle
  /\ ex = ExIdle
  /\ rep = RepIdle
  /\ lnk = LnkIdle
  /\ slg = SlgIdle

Init ==
  /\ raw_repos = <<>>
  /\ artifacts = {}
  /\ artifact_platforms = {}
  /\ failCount = [r \in Repos |-> 0]
  /\ faults = 0
  /\ runs = 0
  /\ mode = [p \in Procs |-> "none"]
  /\ pc = [p \in Procs |-> "idle"]
  /\ expired = [p \in Procs |-> FALSE]
  /\ bad = [p \in Procs |-> {}]
  /\ dis = [p \in Procs |-> DisInit]
  /\ enr = [p \in Procs |-> EnrInit]
  /\ SubInit

storeVars == <<raw_repos, artifacts, artifact_platforms, failCount>>

envVars == <<faults, runs>>

\* timeExpired(): the budget is set and the elapsed time has reached it.
timeExpiredNever(p) == FALSE

timeExpired(p) == expired[p]

\* The clock of a running process reaches its --time-budget.
Tick(p) ==
  /\ mode[p] = "discover"
  /\ pc[p] \notin {"idle", "done", "fatal"}
  /\ ~expired[p]
  /\ expired' = [expired EXCEPT ![p] = TRUE]
  /\ UNCHANGED <<subVars, storeVars, envVars, mode, pc, bad, dis, enr>>

\* ================================================================ DISCOVER
\* main() with --discover: validateEnv and loadLookups passed, runDiscover
\* is entered with the --discover-limit of the command line.
RunStartDiscover(p) ==
  /\ pc[p] = "idle"
  /\ runs < MaxRuns
  /\ runs' = runs + 1
  /\ \E cap \in {0, MaxCap} : dis' = [dis EXCEPT ![p] = [DisInit EXCEPT !.cap = cap]]
  /\ mode' = [mode EXCEPT ![p] = "discover"]
  /\ pc' = [pc EXCEPT ![p] = "query"]
  /\ expired' = [expired EXCEPT ![p] = FALSE]
  /\ UNCHANGED <<subVars, storeVars, faults, bad, enr>>

CapReached(d) == d.cap # 0 /\ Cardinality(d.seen) >= d.cap

\* Where runDiscover goes once the budget check of a loop head has fired:
\* out of both loops, to the flush of the remaining buffer.
AfterBudgetStopNoFlush == "done"

AfterBudgetStop == "flush"

\* Head of the query loop of runDiscover.
DiscoverQuery(p) ==
  /\ mode[p] = "discover" /\ pc[p] = "query"
  /\ LET d == dis[p] IN
       IF d.qi > Len(SEARCH_QUERIES) \/ CapReached(d)
       THEN /\ pc' = [pc EXCEPT ![p] = "flush"]
            /\ dis' = dis
       ELSE IF timeExpired(p)
       THEN /\ pc' = [pc EXCEPT ![p] = AfterBudgetStop]
            /\ dis' = [dis EXCEPT ![p].stoppedByBudget = TRUE]
       ELSE /\ pc' = [pc EXCEPT ![p] = "bucket"]
            /\ dis' = [dis EXCEPT ![p].bi = 1]
  /\ UNCHANGED <<subVars, storeVars, envVars, mode, expired, bad, enr>>

Buckets(q) == IF q.bucketed THEN STAR_BUCKETS ELSE <<"">>

\* Head of the bucket loop: leaves the loop, or enters searchRepos.
DiscoverBucket(p) ==
  /\ mode[p] = "discover" /\ pc[p] = "bucket"
  /\ LET d == dis[p]
         q == SEARCH_QUERIES[d.qi]
     IN IF d.bi > Len(Buckets(q)) \/ CapReached(d)
        THEN /\ pc' = [pc EXCEPT ![p] = "chunk"]
             /\ dis' = dis
        ELSE IF timeExpired(p)
        THEN /\ pc' = [pc EXCEPT ![p] = AfterBudgetStop]
             /\ dis' = [dis EXCEPT ![p].stoppedByBudget = TRUE]
        ELSE /\ pc' = [pc EXCEPT ![p] = "page"]
             /\ dis' = [dis EXCEPT ![p].page = 1, ![p].consecutiveEmpty = 0,
                                   ![p].repos = <<>>]
  /\ UNCHANGED <<subVars, storeVars, envVars, mode, expired, bad, enr>>

\* What githubFetch hands searchRepos for one page: null, or the items of
\* the page in star order (at most per_page of them).
PageResponses ==
  {[null |-> TRUE, items |-> <<>>]} \cup
  {[null |-> FALSE, items |-> SortByStars(S)] :
     S \in {T \in SUBSET Repos : Cardinality(T) <= PER_PAGE}}

\* `if (consecutiveEmpty >= 2)`: searchRepos gives the partition up.
GivesUpAtFirstEmpty(consecutiveEmpty) == consecutiveEmpty >= 1

GivesUp(consecutiveEmpty) == consecutiveEmpty >= 2

\* One iteration of the page loop of searchRepos.
SearchPage(p) ==
  /\ mode[p] = "discover" /\ pc[p] = "page"
  /\ LET d == dis[p]
         maxPages == Min(SEARCH_QUERIES[d.qi].pages, PAGE_CAP)
     IN \E data \in PageResponses :
          IF data.null
          THEN IF GivesUp(d.consecutiveEmpty + 1) \/ d.page + 1 > maxPages
               THEN /\ pc' = [pc EXCEPT ![p] = "collect"]
                    /\ dis' = [dis EXCEPT ![p].consecutiveEmpty = d.consecutiveEmpty + 1]
               ELSE /\ pc' = pc
                    /\ dis' = [dis EXCEPT ![p].consecutiveEmpty = d.consecutiveEmpty + 1,
                                          ![p].page = d.page + 1]
          ELSE IF Len(data.items) < PER_PAGE \/ d.page >= PAGE_CAP \/ d.page + 1 > maxPages
               THEN /\ pc' = [pc EXCEPT ![p] = "collect"]
                    /\ dis' = [dis EXCEPT ![p].consecutiveEmpty = 0,
                                          ![p].repos = d.repos \o data.items]
               ELSE /\ pc' = pc
                    /\ dis' = [dis EXCEPT ![p].consecutiveEmpty = 0,
                                          ![p].repos = d.repos \o data.items,
                                          ![p].page = d.page + 1]
  /\ UNCHANGED <<subVars, storeVars, envVars, mode, expired, bad, enr>>

\* `seen.has(key)` with key = repo.full_name.
hasNever(seen, key) == FALSE

has(seen, key) == key \in seen

\* The dedup loop of runDiscover over the repos one partition returned.
RECURSIVE Collect(_, _, _, _, _)
Collect(repos, i, seen, buffer, d) ==
  IF i > Len(repos) \/ (d.cap # 0 /\ Cardinality(seen) >= d.cap)
  THEN [seen |-> seen, repoBuffer |-> buffer]
  ELSE IF has(seen, repos[i])
       THEN Collect(repos, i + 1, seen, buffer, d)
       ELSE Collect(repos, i + 1, seen \cup {repos[i]},
                    Append(buffer, [repo |-> repos[i],
                                    hint |-> SEARCH_QUERIES[d.qi].hint]), d)

DiscoverCollect(p) ==
  /\ mode[p] = "discover" /\ pc[p] = "collect"
  /\ LET d == dis[p]
         c == Collect(d.repos, 1, d.seen, d.repoBuffer, d)
     IN dis' = [dis EXCEPT ![p].seen = c.seen, ![p].repoBuffer = c.repoBuffer,
                           ![p].repos = <<>>, ![p].page = 1,
                           ![p].consecutiveEmpty = 0, ![p].bi = d.bi + 1]
  /\ pc' = [pc EXCEPT ![p] = "bucket"]
  /\ UNCHANGED <<subVars, storeVars, envVars, mode, expired, bad, enr>>

\* ----------------------------------------------------------- saveReposBatch
ChunkStarts(n) == {k * BATCH_SIZE : k \in 0..((n + BATCH_SIZE - 1) \div BATCH_SIZE - 1)}

ChunkFails(rows, start, badset, transient) ==
  \/ start \in transient
  \/ \E i \in 1..Len(Slice(rows, start, BATCH_SIZE)) :
       Slice(rows, start, BATCH_SIZE)[i].github_full_name \in badset

RECURSIVE UntilFirstBad(_, _)
UntilFirstBad(chunk, badset) ==
  IF chunk = <<>> \/ Head(chunk).github_full_name \in badset THEN <<>>
  ELSE <<Head(chunk)>> \o UntilFirstBad(Tail(chunk), badset)

\* The rows the one-by-one fallback of saveReposBatch persists: each row is
\* upserted in its own try, a failing row is logged and skipped.
FallbackRows(chunk, badset) ==
  SelectSeq(chunk, LAMBDA row : row.github_full_name \notin badset)

RECURSIVE saveChunks(_, _, _, _, _)
saveChunks(store, rows, start, badset, transient) ==
  IF start >= Len(rows) THEN store
  ELSE LET chunk == Slice(rows, start, BATCH_SIZE)
           persisted == IF ChunkFails(rows, start, badset, transient)
                        THEN FallbackRows(chunk, badset) ELSE chunk
       IN saveChunks(IF persisted = <<>> THEN store ELSE sbUpsertRaw(store, persisted),
                     rows, start + BATCH_SIZE, badset, transient)

saveReposBatch(store, batch, badset, transient) ==
  saveChunks(store,
             [i \in 1..Len(batch) |-> repoToRawRow(batch[i].repo, batch[i].hint)],
             0, badset, transient)

BufferNames(buffer) == {buffer[i].repo : i \in 1..Len(buffer)}

\* One call of saveReposBatch: the store rejects the rows of b whenever
\* they are sent, and the batched requests at `transient` fail as a whole.
SaveStep(p, batch, rest, nextPc) ==
  \E b \in BadSets, transient \in SUBSET ChunkStarts(Len(batch)) :
    /\ faults + Cardinality(transient) + (IF b = {} THEN 0 ELSE 1) <= MaxFaults
    /\ faults' = faults + Cardinality(transient) + (IF b = {} THEN 0 ELSE 1)
    /\ raw_repos' = saveReposBatch(raw_repos, batch, b, transient)
    /\ dis' = [dis EXCEPT
                 ![p].repoBuffer = rest,
                 ![p].submitted = @ \cup BufferNames(batch),
                 ![p].rejected = @ \cup (BufferNames(batch) \cap b),
                 ![p].fellBack = @ \/ \E s \in ChunkStarts(Len(batch)) :
                     ChunkFails([i \in 1..Len(batch) |->
                                   repoToRawRow(batch[i].repo, batch[i].hint)],
                                s, b, transient)]
    /\ pc' = [pc EXCEPT ![p] = nextPc]

\* `while (repoBuffer.length >= 100)` at the end of a query, then qi++.
FlushChunk(p) ==
  /\ mode[p] = "discover" /\ pc[p] = "chunk"
  /\ LET d == dis[p] IN
       IF Len(d.repoBuffer) >= FLUSH_SIZE
       THEN SaveStep(p, SubSeq(d.repoBuffer, 1, FLUSH_SIZE),
                     SubSeq(d.repoBuffer, FLUSH_SIZE + 1, Len(d.repoBuffer)), "chunk")
       ELSE /\ dis' = [dis EXCEPT ![p].qi = d.qi + 1]
            /\ pc' = [pc EXCEPT ![p] = "query"]
            /\ UNCHANGED <<raw_repos, faults>>
  /\ UNCHANGED <<subVars, artifacts, artifact_platforms, failCount, runs, mode, expired, bad, enr>>

\* "Flush remaining" and return.
FinalFlush(p) ==
  /\ mode[p] = "discover" /\ pc[p] = "flush"
  /\ LET d == dis[p] IN
       IF Len(d.repoBuffer) > 0
       THEN SaveStep(p, d.repoBuffer, <<>>, "done")
       ELSE /\ pc' = [pc EXCEPT ![p] = "done"]
            /\ UNCHANGED <<raw_repos, dis, faults>>
  /\ UNCHANGED <<subVars, artifacts, artifact_platforms, failCount, runs, mode, expired, bad, enr>>

\* The process ends; the next cron trigger finds it idle.
RunEnd(p) ==
  /\ pc[p] \in {"done", "fatal"}
  /\ pc' = [pc EXCEPT ![p] = "idle"]
  /\ mode' = [mode EXCEPT ![p] = "none"]
  /\ expired' = [expired EXCEPT ![p] = FALSE]
  /\ bad' = [bad EXCEPT ![p] = {}]
  /\ dis' = [dis EXCEPT ![p] = DisInit]
  /\ enr' = [enr EXCEPT ![p] = EnrInit]
  /\ UNCHANGED <<subVars, storeVars, envVars>>

\* ================================================================== ENRICH
\* main() with --enrich: loadLookups fills TYPE_MAP, runEnrich is entered.
RunStartEnrich(p) ==
  /\ pc[p] = "idle"
  /\ runs < MaxRuns
  /\ runs' = runs + 1
  /\ \E tm \in TypeMaps : enr' = [enr EXCEPT ![p] = [EnrInit EXCEPT !.TYPE_MAP = tm]]
  /\ mode' = [mode EXCEPT ![p] = "enrich"]
  /\ pc' = [pc EXCEPT ![p] = "select"]
  /\ expired' = [expired EXCEPT ![p] = FALSE]
  /\ UNCHANGED <<subVars, storeVars, faults, bad, dis>>

\* The snapshot of a row as one sbGet returned it (ENRICH_SELECT columns).
Snapshot(store, S) ==
  [r \in S |-> [enrich_attempts |-> store[r].enrich_attempts,
                type_hint |-> store[r].type_hint]]

\* Where a run goes after a wave (or after the selection): the next wave,
\* or the end of runEnrich.
WaveOrDone(e, start) ==
  IF start < Len(e.pending) THEN "readme" ELSE "done"

\* One sbGet of the per-hint selection loop; after the last one the rows
\* are sorted by stars. A failing sbGet throws out of runEnrich and main.
EnrichSelect(p) ==
  /\ mode[p] = "enrich" /\ pc[p] = "select"
  /\ LET e == enr[p]
         rows == e.rows @@ Snapshot(raw_repos, listPending(raw_repos, typeHints[e.hintIdx]))
     IN \E ok \in Outcomes :
        /\ faults' = Spend(ok)
        /\ IF ~ok
           THEN /\ pc' = [pc EXCEPT ![p] = "fatal"]
                /\ enr' = enr
           ELSE IF e.hintIdx < Len(typeHints)
           THEN /\ enr' = [enr EXCEPT ![p].hintIdx = e.hintIdx + 1, ![p].rows = rows]
                /\ pc' = pc
           ELSE /\ enr' = [enr EXCEPT ![p].hintIdx = 1, ![p].rows = rows,
                                      ![p].pending = SortByStars(DOMAIN rows)]
                /\ pc' = [pc EXCEPT ![p] = IF DOMAIN rows = {} THEN "done" ELSE "readme"]
  /\ UNCHANGED <<subVars, storeVars, runs, mode, expired, bad, dis>>

Wave(e) == Slice(e.pending, e.start, WAVE_SIZE)

\* The lazy README loop of one wave. The README text and its patch into
\* raw_repos touch no column the model keeps (a failing patch is ignored);
\* a fetch() that rejects is caught nowhere and ends the run.
FetchReadmes(p) ==
  /\ mode[p] = "enrich" /\ pc[p] = "readme"
  /\ \E ok \in Outcomes :
       /\ faults' = Spend(ok)
       /\ pc' = [pc EXCEPT ![p] = IF ok THEN "classify" ELSE "fatal"]
  /\ UNCHANGED <<subVars, storeVars, runs, mode, expired, bad, dis, enr>>

\* `.filter(pl => GEMINI_PLATFORMS.includes(pl))`
KeepPlatforms(v) ==
  IF v.kind = "array"
  THEN ArrayOf(SelectSeq(v.items, LAMBDA pl : pl \in GEMINI_PLATFORMS))
  ELSE v

\* `.slice(0, 7)`
KeepTags(v) ==
  IF v.kind = "array"
  THEN ArrayOf(SubSeq(v.items, 1, Min(TAGS_KEPT, Len(v.items))))
  ELSE v

validateEnrichmentKeepingType(p, hint) ==
  IF ~p.object THEN NullAnswer
  ELSE [p EXCEPT
          !.category = IF @ \in GEMINI_CATEGORIES THEN @ ELSE "AI / ML",
          !.compatible_platforms = KeepPlatforms(@),
          !.tags = KeepTags(@)]

\* validateEnrichment: null for a non-object; else the type outside
\* VALID_TYPES becomes the row's hint, the category outside
\* GEMINI_CATEGORIES 'AI / ML', an array of platforms is filtered and an
\* array of tags cut.
validateEnrichment(p, hint) ==
  IF ~p.object THEN NullAnswer
  ELSE [p EXCEPT
          !.artifact_type = IF @ \in VALID_TYPES THEN @ ELSE hint,
          !.category = IF @ \in GEMINI_CATEGORIES THEN @ ELSE "AI / ML",
          !.compatible_platforms = KeepPlatforms(@),
          !.tags = KeepTags(@)]

\* The answer of enrichOneWithGemini that says type t ("null": no answer).
AnswerOfType(t) ==
  IF t = "null" THEN NullAnswer
  ELSE [object |-> TRUE, artifact_type |-> t, category |-> "AI / ML",
        compatible_platforms |-> ArrayOf(<<>>), tags |-> ArrayOf(<<>>)]

\* `e.artifact_type` of an enrichment, "null" for a null enrichment.
TypeOf(e) == IF e.object THEN e.artifact_type ELSE "null"

\* enrichBatchConcurrent over the wave: per item null (the call failed, or
\* the model refused) or the validated artifact_type of the answer.
EnrichBatchConcurrent(p) ==
  /\ mode[p] = "enrich" /\ pc[p] = "classify"
  /\ LET e == enr[p]
         wave == SeqToSet(Wave(e))
     IN \E answers \in [wave -> {"null", "bogus"} \cup VALID_TYPES] :
          enr' = [enr EXCEPT
                    ![p].enrichments =
                       [r \in wave |->
                          TypeOf(validateEnrichment(AnswerOfType(answers[r]),
                                                    e.rows[r].type_hint))],
                    ![p].j = 1, ![p].built = <<>>]
  /\ pc' = [pc EXCEPT ![p] = "writeback"]
  /\ UNCHANGED <<subVars, storeVars, envVars, mode, expired, bad, dis>>

Bump(n) == Min(n + 1, MAX_ENRICH_ATTEMPTS)

\* buildArtifact returns null when TYPE_MAP has no id for the type slug.
buildArtifact(e, typeSlug) == typeSlug \in e.TYPE_MAP

\* The status the failure branch writes back.
NewStatusAlwaysFailed(newAttempts) == "failed"

NewStatus(newAttempts) ==
  IF newAttempts >= MAX_ENRICH_ATTEMPTS THEN "skipped" ELSE "failed"

\* One iteration of the write-back loop of a wave (wave[j]).
WriteBack(p) ==
  /\ mode[p] = "enrich" /\ pc[p] = "writeback"
  /\ LET e == enr[p]
         wave == Wave(e)
         r == wave[e.j]
         newAttempts == e.rows[r].enrich_attempts + 1
         last == e.j = Len(wave)
         after(built) ==
           /\ pc' = [pc EXCEPT ![p] =
                       IF ~last THEN "writeback"
                       ELSE IF Len(built) > 0 THEN "upsert"
                       ELSE WaveOrDone(e, e.start + WAVE_SIZE)]
           /\ enr' = [enr EXCEPT
                        ![p].j = IF last THEN 1 ELSE e.j + 1,
                        ![p].built = built,
                        ![p].builtAll = e.builtAll \cup SeqToSet(built),
                        ![p].ub = 0,
                        ![p].enrichments = IF last THEN <<>> ELSE e.enrichments,
                        ![p].start = IF last /\ Len(built) = 0
                                     THEN e.start + WAVE_SIZE ELSE e.start]
     IN \E patchOk \in Outcomes :
          /\ faults' = Spend(patchOk)
          /\ IF e.enrichments[r] = "null"
             THEN /\ raw_repos' =
                       IF patchOk
                       THEN sbPatchRaw(raw_repos, r,
                              [enrichment_status |-> NewStatus(newAttempts),
                               enrich_attempts |-> newAttempts])
                       ELSE raw_repos
                  /\ failCount' = [failCount EXCEPT ![r] = Bump(@)]
                  /\ after(e.built)
             ELSE /\ raw_repos' =
                       IF patchOk
                       THEN sbPatchRaw(raw_repos, r, [enrich_attempts |-> newAttempts])
                       ELSE raw_repos
                  /\ IF buildArtifact(e, e.enrichments[r])
                     THEN /\ after(Append(e.built, r))
                          /\ failCount' = failCount
                     ELSE /\ after(e.built)
                          /\ failCount' = [failCount EXCEPT ![r] = Bump(@)]
  /\ UNCHANGED <<subVars, artifacts, artifact_platforms, runs, mode, expired, bad, dis>>

\* ---------------------------------------------------------- upsertArtifacts
Batch(e) == Slice(e.built, e.ub, BATCH_SIZE)

\* After the last row of a batch: the next batch, else back in runEnrich
\* after upsertArtifacts, at the end of the wave.
AfterRow(p, e, written, updated, rejected, jf, lt) ==
  LET lastRow == e.ui = Len(Batch(e))
      lastBatch == e.ub + BATCH_SIZE >= Len(e.built)
  IN /\ pc' = [pc EXCEPT ![p] =
                 IF ~lastRow THEN pc[p]
                 ELSE IF ~lastBatch THEN "upsert"
                 ELSE WaveOrDone(e, e.start + WAVE_SIZE)]
     /\ enr' = [enr EXCEPT
                  ![p].ui = IF lastRow THEN 1 ELSE e.ui + 1,
                  ![p].ub = IF lastRow /\ ~lastBatch THEN e.ub + BATCH_SIZE
                            ELSE IF lastRow THEN 0 ELSE e.ub,
                  ![p].built = IF lastRow /\ lastBatch THEN <<>> ELSE e.built,
                  ![p].start = IF lastRow /\ lastBatch THEN e.start + WAVE_SIZE ELSE e.start,
                  ![p].written = written, ![p].updated = updated,
                  ![p].rejected = rejected,
                  ![p].junctionFailed = jf, ![p].linkTried = lt]
     /\ bad' = [bad EXCEPT ![p] = IF lastRow THEN {} ELSE bad[p]]

\* The batched sbUpsert('artifacts') of one batch. It fails when the store
\* rejects one of the rows, or as a whole (a transient error).
UpsertBatch(p) ==
  /\ mode[p] = "enrich" /\ pc[p] = "upsert"
  /\ LET e == enr[p]
         batch == Batch(e)
     IN \E b \in BadSets, ok \in Outcomes :
          /\ b = {} \/ ok
          /\ faults' = IF b = {} THEN Spend(ok) ELSE faults + 1
          /\ IF ~ok \/ SeqToSet(batch) \cap b # {}
             THEN /\ pc' = [pc EXCEPT ![p] = "single"]
                  /\ bad' = [bad EXCEPT ![p] = b]
                  /\ enr' = [enr EXCEPT ![p].ui = 1, ![p].fellBack = TRUE]
                  /\ artifacts' = artifacts
             ELSE /\ pc' = [pc EXCEPT ![p] = "link"]
                  /\ bad' = bad
                  /\ artifacts' = sbUpsertArtifacts(artifacts, batch)
                  /\ enr' = [enr EXCEPT
                               ![p].ui = 1,
                               ![p].written = @ \cup SeqToSet(batch),
                               ![p].updated = @ \cup
                                  {r \in SeqToSet(batch) : HasArtifact(artifacts, r)}]
  /\ UNCHANGED <<subVars, raw_repos, artifact_platforms, failCount, runs, mode, expired, dis>>

\* Whether the candidate is linked after its junction write: the junction
\* upsert sits in a try of its own, whose catch only logs.
LinkAfterJunctionOnlyIfOk(junctionOk) == junctionOk

LinkAfterJunction(junctionOk) == TRUE

LinkPatchStatusOnly(artifactId) == [enrichment_status |-> "enriched"]

\* The patch that links a candidate to its artifact.
LinkPatch(artifactId) ==
  [artifact_id |-> artifactId, enrichment_status |-> "enriched"]

\* Junction rows and link patch of one written artifact (every type has
\* default platform labels, so there are junction rows to write).
JunctionAndLink(p, r, e, written, updated) ==
  \* `result[i].id`, the response holding the rows in the order of the
  \* request
  LET id == ArtifactId(artifacts', r) IN
  \E junctionOk \in Outcomes, patchOk \in Outcomes :
    /\ junctionOk \/ patchOk \/ faults + 2 <= MaxFaults
    /\ faults' = faults + (IF junctionOk THEN 0 ELSE 1) + (IF patchOk THEN 0 ELSE 1)
    /\ artifact_platforms' =
         IF junctionOk THEN artifact_platforms \cup {id} ELSE artifact_platforms
    /\ raw_repos' =
         IF LinkAfterJunction(junctionOk) /\ patchOk
         THEN sbPatchRaw(raw_repos, r, LinkPatch(id))
         ELSE raw_repos
    /\ AfterRow(p, e, written, updated, e.rejected,
                IF junctionOk THEN e.junctionFailed ELSE e.junctionFailed \cup {r},
                IF LinkAfterJunction(junctionOk) THEN e.linkTried \cup {r}
                ELSE e.linkTried)

\* One iteration of the loop over the result of a successful batch upsert.
LinkRow(p) ==
  /\ mode[p] = "enrich" /\ pc[p] = "link"
  /\ LET e == enr[p]
         r == Batch(e)[e.ui]
     IN /\ artifacts' = artifacts
        /\ JunctionAndLink(p, r, e, e.written, e.updated)
  /\ UNCHANGED <<subVars, failCount, runs, mode, expired, dis>>

\* One iteration of the one-by-one fallback after a failed batch upsert.
SingleRow(p) ==
  /\ mode[p] = "enrich" /\ pc[p] = "single"
  /\ LET e == enr[p]
         r == Batch(e)[e.ui]
     IN IF r \in bad[p]
        THEN /\ failCount' = [failCount EXCEPT ![r] = Bump(@)]
             /\ AfterRow(p, e, e.written, e.updated, e.rejected \cup {r},
                         e.junctionFailed, e.linkTried)
             /\ UNCHANGED <<raw_repos, artifacts, artifact_platforms, faults>>
        ELSE /\ artifacts' = sbUpsertArtifacts(artifacts, <<r>>)
             /\ failCount' = failCount
             /\ JunctionAndLink(p, r, e, e.written \cup {r},
                                IF HasArtifact(artifacts, r) THEN e.updated \cup {r}
                                ELSE e.updated)
  /\ UNCHANGED <<subVars, runs, mode, expired, dis>>

\* ========================================================== specifications
DiscoverStep(p) ==
  \/ RunStartDiscover(p)
  \/ DiscoverQuery(p)
  \/ DiscoverBucket(p)
  \/ SearchPage(p)
  \/ DiscoverCollect(p)
  \/ FlushChunk(p)
  \/ FinalFlush(p)

EnrichStep(p) ==
  \/ RunStartEnrich(p)
  \/ EnrichSelect(p)
  \/ FetchReadmes(p)
  \/ EnrichBatchConcurrent(p)
  \/ WriteBack(p)
  \/ UpsertBatch(p)
  \/ LinkRow(p)
  \/ SingleRow(p)

\* One process at a time: the cron trigger starts a run when the previous
\* one has ended.
Next == DiscoverStep(1) \/ EnrichStep(1) \/ Tick(1) \/ RunEnd(1)

Spec == Init /\ [][Next]_vars

\* Discovery runs alone, from the empty staging table.
NextDiscover == DiscoverStep(1) \/ Tick(1) \/ RunEnd(1)

SpecDiscover == Init /\ [][NextDiscover]_vars

\* The state a discovery run leaves that staged the first n repositories:
\* every row new, with the column defaults.
Staged(n) ==
  /\ raw_repos = [r \in {RepoOrder[i] : i \in 1..Min(n, Len(RepoOrder))} |-> RawDefaults]
  /\ artifacts = {}
  /\ artifact_platforms = {}
  /\ failCount = [r \in Repos |-> 0]
  /\ faults = 0
  /\ runs = 0
  /\ mode = [p \in Procs |-> "none"]
  /\ pc = [p \in Procs |-> "idle"]
  /\ expired = [p \in Procs |-> FALSE]
  /\ bad = [p \in Procs |-> {}]
  /\ dis = [p \in Procs |-> DisInit]
  /\ enr = [p \in Procs |-> EnrInit]
  /\ SubInit

\* Enrich runs one after another over a staged corpus.
NextEnrich == EnrichStep(1) \/ RunEnd(1)

SpecEnrich == Staged(Len(RepoOrder)) /\ [][NextEnrich]_vars

\* ------------------------------------------------------ runs without end
\* The trigger goes on starting enrich runs after the runs the model
\* counts: the same start, the counter left alone.
RunStartEnrichAgain(p) ==
  /\ pc[p] = "idle"
  /\ runs = MaxRuns
  /\ \E tm \in TypeMaps : enr' = [enr EXCEPT ![p] = [EnrInit EXCEPT !.TYPE_MAP = tm]]
  /\ mode' = [mode EXCEPT ![p] = "enrich"]
  /\ pc' = [pc EXCEPT ![p] = "select"]
  /\ expired' = [expired EXCEPT ![p] = FALSE]
  /\ UNCHANGED <<subVars, storeVars, faults, runs, bad, dis>>

\* Enrich runs repeated for ever over a staged corpus that discovery adds
\* nothing to; every request returns and the trigger keeps firing.
NextEnrichForever == NextEnrich \/ RunStartEnrichAgain(1)

SpecEnrichForever ==
  Staged(Len(RepoOrder)) /\ [][NextEnrichForever]_vars /\ WF_vars(NextEnrichForever)

\* Two enrich processes started by overlapping triggers, no lock.
NextConc == \E p \in Procs : EnrichStep(p) \/ RunEnd(p)

SpecConc == Staged(ConcStaged) /\ [][NextConc]_vars

\* ============================================================= githubFetch
\* What one `await fetch(url)` of githubFetch can bring: a response with
\* its status and rate-limit headers (remaining -1: header absent; resetIn:
\* x-ratelimit-reset minus the clock, in ms), or a rejection (status 0).
Statuses == {0, 200, 403, 404, 422, 429, 500}

Remainings == {-1, 0, 2, 3}

ResetDeltas == {-1000, 30000, 119000, 3600000}

Responses == [status : Statuses, remaining : Remainings, resetIn : ResetDeltas]

Max(a, b) == IF a > b THEN a ELSE b

\* The attempt that never sleeps proactively.
ProactiveSleepNever(res) == 0

\* "Proactive: sleep before we actually run out of requests".
ProactiveSleep(res) ==
  IF res.remaining # -1 /\ res.remaining < 3
  THEN Max(0, res.resetIn) + 2000
  ELSE 0

\* The wait of the 403/429 branch, computed after the proactive sleep.
RateLimitSleep(res) ==
  Min(Max(5000, res.resetIn - ProactiveSleep(res)) + 2000, 120000)

\* What is left, after the attempt has slept `slept` ms, of the time to the
\* quota reset the response reports plus the 2 s margin (0 when the
\* response does not report a quota below 3).
UntilReset(res, slept) ==
  IF res.remaining # -1 /\ res.remaining < 3
  THEN Max(0, res.resetIn + 2000 - slept)
  ELSE 0

IsRateLimitedOrClientError(status) == status \in {403, 404, 422, 429}

IsRateLimited(status) == status \in {403, 429}

\* githubFetch is called (by searchRepos or fetchReadme).
GithubFetchCall ==
  /\ gf.pc = "idle"
  /\ gf' = [GfIdle EXCEPT !.pc = "fetch"]
  /\ UNCHANGED <<pipeVars, bat, part, pool, val, sel, men, vibe, trend, ex, rep, lnk, slg>>

GfReturn(res, result) ==
  [gf EXCEPT !.pc = "returned", !.requests = @ + 1, !.status = res.status,
             !.proactive = ProactiveSleep(res), !.backoff = 0,
             !.onlyRateLimited = @ /\ IsRateLimited(res.status),
             !.result = result,
             !.untilReset = UntilReset(res, ProactiveSleep(res))]

GfRetry(res, sleep) ==
  [gf EXCEPT !.attempt = @ + 1, !.requests = @ + 1, !.status = res.status,
             !.proactive = ProactiveSleep(res), !.backoff = sleep,
             !.onlyRateLimited = @ /\ IsRateLimited(res.status),
             !.untilReset = UntilReset(res, ProactiveSleep(res) + sleep)]

\* One iteration of the attempt loop of githubFetch.
GithubFetchAttempt ==
  /\ gf.pc = "fetch"
  /\ \E res \in Responses :
       gf' = IF res.status = 0
               THEN [gf EXCEPT !.pc = "returned", !.requests = @ + 1, !.status = 0,
                               !.proactive = 0, !.backoff = 0,
                               !.onlyRateLimited = FALSE, !.result = "throws"]
             ELSE IF IsRateLimited(res.status)
               THEN IF gf.attempt < GITHUB_MAX_RETRIES
                    THEN GfRetry(res, RateLimitSleep(res))
                    ELSE GfReturn(res, "null")
             ELSE IF res.status \in {404, 422}
               THEN GfReturn(res, "null")
             ELSE IF res.status # 200
               THEN IF res.status >= 500 /\ gf.attempt < GITHUB_MAX_RETRIES
                    THEN GfRetry(res, 3000 * (gf.attempt + 1))
                    ELSE GfReturn(res, "null")
             ELSE GfReturn(res, "body")
  /\ UNCHANGED <<pipeVars, bat, part, pool, val, sel, men, vibe, trend, ex, rep, lnk, slg>>

\* The caller has taken the result.
GithubFetchDone ==
  /\ gf.pc = "returned"
  /\ gf' = [GfIdle EXCEPT !.untilReset = gf.untilReset]
  /\ UNCHANGED <<pipeVars, bat, part, pool, val, sel, men, vibe, trend, ex, rep, lnk, slg>>

NextFetch == GithubFetchCall \/ GithubFetchAttempt \/ GithubFetchDone

SpecFetch == Init /\ [][NextFetch]_vars

\* =================================================== enrichBatchWithGemini
\* How one attempt of the batched call ends: a parsed array ("ok"), a 429
\* response, or anything the try block throws ("error": a rejected fetch,
\* a non-2xx status, an empty text, JSON that is no array).
BatchOutcomes == {"ok", "429", "error"}

\* enrichBatchWithGemini(items) is called with 1..MaxBatchItems items.
BatchCall ==
  /\ bat.pc = "idle"
  /\ \E n \in 1..MaxBatchItems : bat' = [BatIdle EXCEPT !.pc = "attempt", !.n = n]
  /\ UNCHANGED <<pipeVars, gf, part, pool, val, sel, men, vibe, trend, ex, rep, lnk, slg>>

\* One iteration of the attempt loop.  A 429 sleeps and continues; on the
\* last attempt the loop condition then fails and the function returns
\* items.map(() => null).
BatchAttempt ==
  /\ bat.pc = "attempt"
  /\ \E o \in BatchOutcomes :
       LET b == [bat EXCEPT !.outcomes = Append(@, o)] IN
       bat' = IF o = "ok"
                THEN [b EXCEPT !.pc = "returned", !.via = "batch",
                               !.results = [i \in 1..bat.n |-> "parsed"]]
              ELSE IF o = "429"
                THEN IF bat.attempt < BATCH_RETRIES
                     THEN [b EXCEPT !.attempt = @ + 1]
                     ELSE [b EXCEPT !.pc = "returned", !.via = "nulls",
                                    !.results = [i \in 1..bat.n |-> "null"]]
              ELSE IF bat.attempt = BATCH_RETRIES
                THEN [b EXCEPT !.pc = "fallback", !.via = "fallback"]
                ELSE [b EXCEPT !.attempt = @ + 1]
  /\ UNCHANGED <<pipeVars, gf, part, pool, val, sel, men, vibe, trend, ex, rep, lnk, slg>>

\* The 1-by-1 fallback: enrichOneWithGemini(item) for the next item.
BatchFallbackItem ==
  /\ bat.pc = "fallback"
  /\ \E r \in {"null", "parsed"} :
       bat' = [bat EXCEPT !.singles = @ \cup {bat.j},
                          !.results = Append(@, r),
                          !.j = @ + 1,
                          !.pc = IF bat.j = bat.n THEN "returned" ELSE "fallback"]
  /\ UNCHANGED <<pipeVars, gf, part, pool, val, sel, men, vibe, trend, ex, rep, lnk, slg>>

\* The caller has taken the results.
BatchDone ==
  /\ bat.pc = "returned"
  /\ bat' = BatIdle
  /\ UNCHANGED <<pipeVars, gf, part, pool, val, sel, men, vibe, trend, ex, rep, lnk, slg>>

NextBatch == BatchCall \/ BatchAttempt \/ BatchFallbackItem \/ BatchDone

SpecBatch == Init /\ [][NextBatch]_vars

\* ==================================================== star-range partitions
\* The matches of a query: cnt[b] repositories in star range b, the ranges
\* in STAR_BUCKETS order (most stars first).  <<b, k>> is the k-th most
\* starred match of range b.
Matches(cnt) == {<<b, k>> : b \in DOMAIN cnt, k \in 1..MaxPerBucket} \cap
                {m \in (DOMAIN cnt) \X (1..MaxPerBucket) : m[2] <= cnt[m[1]]}

\* The place of a match in `sort=stars&order=desc`.
StarRank(cnt, m) ==
  Cardinality({x \in Matches(cnt) : x[1] < m[1] \/ (x[1] = m[1] /\ x[2] <= m[2])})

\* The `stars:` qualifier appended to the query (b = 0: no qualifier).
InBucketAny(m, b) == TRUE

InBucket(m, b) == b = 0 \/ m[1] = b

\* What the search API serves for the query: the first ApiCap matches in
\* star order ("returns max 1000 results per query").
ApiResults(cnt, b) ==
  LET hits == {m \in Matches(cnt) : InBucket(m, b)}
      rank(m) == Cardinality({x \in hits : StarRank(cnt, x) <= StarRank(cnt, m)})
  IN {m \in hits : rank(m) <= ApiCap}

\* The items of one page of it.
ApiPage(cnt, b, page) ==
  LET res == ApiResults(cnt, b)
      rank(m) == Cardinality({x \in res : StarRank(cnt, x) <= StarRank(cnt, m)})
  IN {m \in res : rank(m) > (page - 1) * PER_PAGE /\ rank(m) <= page * PER_PAGE}

\* runDiscover starts a bucketed query.
PartitionStart ==
  /\ part.pc = "idle"
  /\ \E cnt \in [1..Len(STAR_BUCKETS) -> 0..MaxPerBucket] :
       part' = [PartIdle EXCEPT !.pc = "page", !.cnt = cnt]
  /\ UNCHANGED <<pipeVars, gf, bat, pool, val, sel, men, vibe, trend, ex, rep, lnk, slg>>

\* searchRepos fetches the next page of the current bucket; runDiscover
\* adds the unseen results and goes to the next bucket after the last page.
PartitionPage ==
  /\ part.pc = "page"
  /\ LET items == ApiPage(part.cnt, part.bi, part.page)
         last == Cardinality(items) < PER_PAGE \/ part.page >= PAGE_CAP
     IN part' = [part EXCEPT
                   !.seen = @ \cup {m \in items : ~has(part.seen, m)},
                   !.page = IF last THEN 1 ELSE @ + 1,
                   !.bi = IF last THEN @ + 1 ELSE @,
                   !.pc = IF last /\ part.bi = Len(STAR_BUCKETS) THEN "done" ELSE "page"]
  /\ UNCHANGED <<pipeVars, gf, bat, pool, val, sel, men, vibe, trend, ex, rep, lnk, slg>>

PartitionDone ==
  /\ part.pc = "done"
  /\ part' = PartIdle
  /\ UNCHANGED <<pipeVars, gf, bat, pool, val, sel, men, vibe, trend, ex, rep, lnk, slg>>

NextPartition == PartitionStart \/ PartitionPage \/ PartitionDone

SpecPartition == Init /\ [][NextPartition]_vars

\* =================================================== enrichBatchConcurrent
\* `retries = 3` of enrichOneWithGemini.
GEMINI_RETRIES == 3

\* `Math.min(ENRICH_CONCURRENCY, items.length)` workers.
WorkerCountPerItem(n) == n

WorkerCount(n) == Min(ENRICH_CONCURRENCY, n)

\* Calls of enrichOneWithGemini that have been issued and not yet settled.
InFlight == {w \in DOMAIN pool.workers : pool.workers[w].st = "call"}

\* enrichBatchConcurrent(items) creates its workers.
PoolStart ==
  /\ pool.pc = "idle"
  /\ \E n \in 1..MaxPoolItems :
       pool' = [pc |-> "running", n |-> n, nextIdx |-> 0,
                workers |-> [w \in 1..WorkerCount(n) |->
                               [st |-> "ready", idx |-> 0, attempt |-> 0,
                                overtaken |-> 0]],
                results |-> [i \in 1..n |-> "none"],
                claimed |-> [i \in 1..n |-> 0],
                storedFor |-> [i \in 1..n |-> 0]]
  /\ UNCHANGED <<pipeVars, gf, bat, part, val, sel, men, vibe, trend, ex, rep, lnk, slg>>

\* A sleep that would hold the whole event loop: every worker stands still
\* while any worker sleeps.
SuspendedByAny(w) ==
  \E v \in DOMAIN pool.workers : pool.workers[v].st \in {"backoff", "pause"}

\* `sleep = (ms) => new Promise((r) => setTimeout(r, ms))`: an awaited
\* sleep suspends the async function that awaits it, and nothing else.
Suspended(w) == pool.workers[w].st \in {"backoff", "pause"}

\* Head of the worker loop: `idx = nextIdx++` and the call is issued, or
\* the queue is empty and the worker ends.
WorkerTake(w) ==
  /\ pool.pc = "running"
  /\ pool.workers[w].st = "ready"
  /\ ~Suspended(w)
  /\ pool' = IF pool.nextIdx < pool.n
               THEN [pool EXCEPT !.nextIdx = @ + 1,
                                 !.workers[w] = [st |-> "call", idx |-> pool.nextIdx + 1,
                                                 attempt |-> 0, overtaken |-> 0],
                                 !.claimed[pool.nextIdx + 1] = @ + 1]
               ELSE [pool EXCEPT !.workers[w] = [st |-> "exit", idx |-> 0,
                                                 attempt |-> 0, overtaken |-> 0]]
  /\ UNCHANGED <<pipeVars, gf, bat, part, val, sel, men, vibe, trend, ex, rep, lnk, slg>>

resultIndexShared(w) == pool.nextIdx

\* The index of `results[idx] = ...`: the worker's own `const idx`.
resultIndex(w) == pool.workers[w].idx

\* `results[idx] = await enrichOneWithGemini(items[idx])` of worker w with
\* answer r (claimed and storedFor record, per index, the claims made and
\* the item whose answer was stored there; overtaken counts, for a worker
\* in its 429 sleep, the items the others have completed meanwhile).
Settled(w, r) ==
  [pool EXCEPT !.workers = [v \in DOMAIN pool.workers |->
                              IF v = w
                                THEN [st |-> "ready", idx |-> 0, attempt |-> 0,
                                      overtaken |-> 0]
                              ELSE IF pool.workers[v].st = "backoff"
                                THEN [pool.workers[v] EXCEPT !.overtaken = @ + 1]
                              ELSE pool.workers[v]],
               !.results[resultIndex(w)] = r,
               !.storedFor[resultIndex(w)] = pool.workers[w].idx]

\* The request of worker w is answered and enrichOneWithGemini returns: the
\* validated answer, or null (SAFETY/RECITATION, or an error on the last
\* attempt).
WorkerSettle(w) ==
  /\ pool.pc = "running"
  /\ pool.workers[w].st = "call"
  /\ ~Suspended(w)
  /\ \E r \in {"null", "parsed"} : pool' = Settled(w, r)
  /\ UNCHANGED <<pipeVars, gf, bat, part, val, sel, men, vibe, trend, ex, rep, lnk, slg>>

\* The request of worker w is answered 429: `await sleep(2^(attempt+1) * 5 s)`
\* inside enrichOneWithGemini, whatever the attempt.
WorkerQuota(w) ==
  /\ pool.pc = "running"
  /\ pool.workers[w].st = "call"
  /\ ~Suspended(w)
  /\ pool' = [pool EXCEPT !.workers[w].st = "backoff"]
  /\ UNCHANGED <<pipeVars, gf, bat, part, val, sel, men, vibe, trend, ex, rep, lnk, slg>>

\* The request of worker w fails otherwise before the last attempt:
\* `await sleep(2000 * (attempt + 1))` in the catch block.
WorkerError(w) ==
  /\ pool.pc = "running"
  /\ pool.workers[w].st = "call"
  /\ ~Suspended(w)
  /\ pool.workers[w].attempt < GEMINI_RETRIES
  /\ pool' = [pool EXCEPT !.workers[w].st = "pause"]
  /\ UNCHANGED <<pipeVars, gf, bat, part, val, sel, men, vibe, trend, ex, rep, lnk, slg>>

\* The sleep of worker w ends: the next attempt sends its request, or the
\* attempts are used up and enrichOneWithGemini returns null.
WorkerWake(w) ==
  /\ pool.pc = "running"
  /\ pool.workers[w].st \in {"backoff", "pause"}
  /\ pool' = IF pool.workers[w].attempt + 1 <= GEMINI_RETRIES
               THEN [pool EXCEPT !.workers[w].st = "call",
                                 !.workers[w].attempt = @ + 1,
                                 !.workers[w].overtaken = 0]
               ELSE Settled(w, "null")
  /\ UNCHANGED <<pipeVars, gf, bat, part, val, sel, men, vibe, trend, ex, rep, lnk, slg>>

\* Promise.all(workers) resolves.
PoolReturn ==
  /\ pool.pc = "running"
  /\ \A w \in DOMAIN pool.workers : pool.workers[w].st = "exit"
  /\ pool' = PoolIdle
  /\ UNCHANGED <<pipeVars, gf, bat, part, val, sel, men, vibe, trend, ex, rep, lnk, slg>>

NextPool ==
  \/ PoolStart
  \/ \E w \in 1..MaxPoolItems : w \in DOMAIN pool.workers /\ WorkerTake(w)
  \/ \E w \in 1..MaxPoolItems : w \in DOMAIN pool.workers /\ WorkerSettle(w)
  \/ \E w \in 1..MaxPoolItems : w \in DOMAIN pool.workers /\ WorkerQuota(w)
  \/ \E w \in 1..MaxPoolItems : w \in DOMAIN pool.workers /\ WorkerError(w)
  \/ \E w \in 1..MaxPoolItems : w \in DOMAIN pool.workers /\ WorkerWake(w)
  \/ PoolReturn

SpecPool == Init /\ [][NextPool]_vars

\* ====================================================== validateEnrichment
\* The labels an answer can put in compatible_platforms, one of them
\* outside GEMINI_PLATFORMS.
PlatformLabels == <<"Cursor", "n8n", "Skynet">>

\* The values of compatible_platforms: any sub-list of the labels as an
\* array, a string naming the unknown label, or nothing.
PlatformValues ==
  {ArrayOf(SelectSeq(PlatformLabels, LAMBDA l : l \in S)) :
     S \in SUBSET SeqToSet(PlatformLabels)}
  \cup {StringOf(<<"Skynet">>), Absent}

\* The values of tags: an array of 0..MaxTags tags, a string that lists
\* MaxTags tags, or nothing.
TagValues ==
  {ArrayOf([i \in 1..n |-> i]) : n \in 0..MaxTags}
  \cup {StringOf([i \in 1..MaxTags |-> i]), Absent}

\* What JSON.parse of a Gemini text can hand validateEnrichment.
Answers ==
  {NullAnswer} \cup
  [object : {TRUE}, artifact_type : VALID_TYPES \cup {"bogus"},
   category : GEMINI_CATEGORIES \cup {"bogus"},
   compatible_platforms : PlatformValues, tags : TagValues]

\* enrichOneWithGemini has parsed the answer for a row with this hint;
\* loadLookups has filled TYPE_MAP.
ValidateCall ==
  /\ val.pc = "idle"
  /\ \E p \in Answers, hint \in VALID_TYPES, tm \in TypeMaps :
       val' = [ValIdle EXCEPT !.pc = "parsed", !.p = p, !.hint = hint, !.TYPE_MAP = tm]
  /\ UNCHANGED <<pipeVars, gf, bat, part, pool, sel, men, vibe, trend, ex, rep, lnk, slg>>

\* `return validateEnrichment(parsed, item.type_hint)`
ValidateReturn ==
  /\ val.pc = "parsed"
  /\ val' = [val EXCEPT !.pc = "validated", !.out = validateEnrichment(val.p, val.hint)]
  /\ UNCHANGED <<pipeVars, gf, bat, part, pool, sel, men, vibe, trend, ex, rep, lnk, slg>>

\* runEnrich with the enrichment of the row: the failure branch for null,
\* else buildArtifact, whose result is pushed unless it is null.
ValidateBuild ==
  /\ val.pc = "validated"
  /\ val' = IF ~val.out.object
              THEN [val EXCEPT !.pc = "failed"]
            ELSE [val EXCEPT !.pc = "built",
                             !.artifact = buildArtifact(val, val.out.artifact_type)]
  /\ UNCHANGED <<pipeVars, gf, bat, part, pool, sel, men, vibe, trend, ex, rep, lnk, slg>>

ValidateDone ==
  /\ val.pc \in {"failed", "built"}
  /\ val' = ValIdle
  /\ UNCHANGED <<pipeVars, gf, bat, part, pool, sel, men, vibe, trend, ex, rep, lnk, slg>>

NextValidate == ValidateCall \/ ValidateReturn \/ ValidateBuild \/ ValidateDone

SpecValidate == Init /\ [][NextValidate]_vars

\* ======================================================= runEnrich(limit)
CeilDiv(a, b) == (a + b - 1) \div b

\* `Math.max(20, Math.ceil(limit / typeHints.length))`
perTypeLimit(limit) == Max(PER_TYPE_FLOOR, CeilDiv(limit, Len(typeHints)))

\* main() with `--enrich --enrich-limit N`: runEnrich(N) is entered while
\* raw_repos holds avail[h] selectable rows of hint h.
SelectCall ==
  /\ sel.pc = "idle"
  /\ \E limit \in 1..MaxLimit, avail \in [1..Len(typeHints) -> {0, 1, PER_TYPE_FLOOR, MaxAvail}] :
       sel' = [SelIdle EXCEPT !.pc = "select", !.limit = limit, !.avail = avail]
  /\ UNCHANGED <<pipeVars, gf, bat, part, pool, val, men, vibe, trend, ex, rep, lnk, slg>>

\* One sbGet of the per-hint loop (`&limit=${perTypeLimit}`) and
\* `pending.push(...rows)`.
SelectHint ==
  /\ sel.pc = "select"
  /\ sel' = [sel EXCEPT
               !.pending = @ + Min(sel.avail[sel.hintIdx], perTypeLimit(sel.limit)),
               !.hintIdx = @ + 1,
               !.pc = IF sel.hintIdx = Len(typeHints) THEN "waves" ELSE "select"]
  /\ UNCHANGED <<pipeVars, gf, bat, part, pool, val, men, vibe, trend, ex, rep, lnk, slg>>

\* One wave of the loop over pending.
SelectWave ==
  /\ sel.pc = "waves"
  /\ sel' = IF sel.processed < sel.pending
              THEN [sel EXCEPT !.processed = Min(@ + WAVE_SIZE, sel.pending)]
            ELSE [sel EXCEPT !.pc = "done"]
  /\ UNCHANGED <<pipeVars, gf, bat, part, pool, val, men, vibe, trend, ex, rep, lnk, slg>>

SelectDone ==
  /\ sel.pc = "done"
  /\ sel' = SelIdle
  /\ UNCHANGED <<pipeVars, gf, bat, part, pool, val, men, vibe, trend, ex, rep, lnk, slg>>

NextSelect == SelectCall \/ SelectHint \/ SelectWave \/ SelectDone

SpecSelect == Init /\ [][NextSelect]_vars

\* ======================================================= artifact_mentions
\* Column defaults of CREATE TABLE artifact_mentions, for the columns the
\* model keeps (sentiment has no default: NULL).
MentionDefaults == [artifact_id |-> 0, score |-> 0, sentiment |-> "NULL"]

\* `mentions.map(m => ({artifact_id: artifactId, ..., score: m.score, ...}))`:
\* the payload has no sentiment.
MentionRow(a, k, points) == [artifact_id |-> a, score |-> points[k]]

\* sbUpsert('artifact_mentions', rows, 'source,external_id') when it
\* succeeds, for the rows of artifact a with the keys in ks.
sbUpsertMentions(table, a, ks, points) ==
  [k \in DOMAIN table \cup ks |->
     IF k \in ks
     THEN MergeRow(IF k \in DOMAIN table THEN table[k] ELSE MentionDefaults,
                   MentionRow(a, k, points))
     ELSE table[k]]

\* main() of the vibe-score script up to step 3: the sources report the
\* current points of every mention and the mentions found per artifact.
VibeStart ==
  /\ men.pc = "idle"
  /\ \E points \in [MentionKeys -> 0..MaxPoints],
        found \in [VibeArtifacts -> SUBSET MentionKeys] :
       men' = [men EXCEPT !.pc = "upsert", !.ai = 1, !.points = points,
                          !.allMentions = found, !.before = men.table]
  /\ UNCHANGED <<pipeVars, gf, bat, part, pool, val, sel, vibe, trend, ex, rep, lnk, slg>>

\* Step 4 for one entry of allMentions: the batched upsert, on failure
\* one upsert per row, a failing row being skipped.
VibeUpsertMentions ==
  /\ men.pc = "upsert"
  /\ LET a == men.ai
         ks == men.allMentions[a]
     IN \E batchOk \in BOOLEAN, rowOk \in SUBSET ks :
          /\ batchOk => rowOk = ks
          /\ men' = [men EXCEPT
                       !.table = IF ks = {} THEN @
                                 ELSE sbUpsertMentions(@, a, rowOk, men.points),
                       !.ai = @ + 1,
                       !.pc = IF a = Cardinality(VibeArtifacts) THEN "done" ELSE "upsert"]
  /\ UNCHANGED <<pipeVars, gf, bat, part, pool, val, sel, vibe, trend, ex, rep, lnk, slg>>

\* The run ends; the table stays.
VibeEnd ==
  /\ men.pc = "done"
  /\ men' = [MenIdle EXCEPT !.table = men.table]
  /\ UNCHANGED <<pipeVars, gf, bat, part, pool, val, sel, vibe, trend, ex, rep, lnk, slg>>

NextMentions == VibeStart \/ VibeUpsertMentions \/ VibeEnd

SpecMentions == Init /\ [][NextMentions]_vars

\* ======================================================== computeVibeScore
\* Math.floor(Math.log10(x) * m) for an integer x >= 1, by its steps: entry
\* k of the table is the least integer x with x^m >= 10^k, that is with
\* Math.floor(Math.log10(x) * m) >= k.  The tables end one step above
\* the cap the code applies to the value, where FloorLog saturates.
Log15Steps ==
  << 2, 2, 2, 2, 3, 3, 3, 4, 4, 5,
     6, 7, 8, 9, 10, 12, 14, 16, 19, 22,
     26, 30, 35, 40, 47, 55, 64, 74, 86, 100,
     117, 136, 159, 185, 216, 252, 293, 342, 399, 465,
     542 >>

Log8Steps ==
  << 2, 2, 3, 4, 5, 6, 8, 10, 14, 18,
     24, 32, 43, 57, 75, 100, 134, 178, 238, 317,
     422, 563, 750, 1000, 1334, 1779, 2372, 3163, 4217, 5624,
     7499 >>

Log10Steps ==
  << 2, 2, 2, 3, 4, 4, 6, 7, 8, 10,
     13, 16, 20, 26, 32, 40, 51, 64, 80, 100,
     126 >>

FloorLog(x, steps) == Cardinality({k \in 1..Len(steps) : steps[k] <= x})

\* Sentiment values are kept in twentieths: SentimentUnit stands for 1.0.
SentimentUnit == 20

\* `Math.max(-1, Math.min(1, parseFloat(v) || 0))` of analyzeSentimentBatch.
ClampSentiment(v) == Max(-SentimentUnit, Min(SentimentUnit, v))

\* Math.round(((s || 0) + 1) * 5): the nearest integer, a half going up.
sentimentSignalOf(s) == (2 * (s + SentimentUnit) * 5 + SentimentUnit) \div (2 * SentimentUnit)

downloadSignalOf(downloads) == Min(30, FloorLog(Max(1, downloads), Log8Steps))

mentionSignalUncapped(mentions7d, mentions30d) == mentions7d * 5 + mentions30d * 1

mentionSignalOf(mentions7d, mentions30d) == Min(30, mentions7d * 5 + mentions30d * 1)

qualitySignalRoundedUp(avgScore) ==
  Min(20, FloorLog(Max(1, avgScore), Log10Steps) + 1)

qualitySignalOf(avgScore) == Min(20, FloorLog(Max(1, avgScore), Log10Steps))

recencySignalOf(mentions7d, mentions30d) ==
  IF mentions7d > 0 THEN 10 ELSE IF mentions30d > 0 THEN 5 ELSE 0

\* The five locals of computeVibeScore.
VibeSignals(in) ==
  [download |-> downloadSignalOf(in.npmDownloads + in.pypiDownloads),
   mention |-> mentionSignalOf(in.mentions7d, in.mentions30d),
   quality |-> qualitySignalOf(in.avgScore),
   sentiment |-> sentimentSignalOf(in.sentimentAvg),
   recency |-> recencySignalOf(in.mentions7d, in.mentions30d)]

SumOf(c) == c.download + c.mention + c.quality + c.sentiment + c.recency

computeVibeScore(in) == Min(100, SumOf(VibeSignals(in)))

\* computeComponents of the vibe panel: the signals from the artifact
\* row, the quality signal estimated from mention_count_30d * 10.
computeComponents(a) ==
  [download |-> downloadSignalOf(a.npm_downloads_weekly + a.pypi_downloads_weekly),
   mention |-> mentionSignalOf(a.mention_count_7d, a.mention_count_30d),
   quality |-> Min(20, FloorLog(Max(1, a.mention_count_30d * 10), Log10Steps)),
   sentiment |-> sentimentSignalOf(a.sentiment_avg),
   recency |-> recencySignalOf(a.mention_count_7d, a.mention_count_30d)]

\* Weekly downloads, average mention scores and raw sentiment answers the
\* sources can report.
DownloadValues == {0, 1, 9, 10, 1000, 5623, 5624, 100000}

AvgScoreValues == {0, 1, 9, 10, 50, 99, 100, 5000}

RawSentiments == {-30, -20, -15, -10, -5, 0, 5, 8, 10, 15, 20, 30}

\* What step 6 of main() hands computeVibeScore for one artifact.
VibeInputs ==
  {in \in [npmDownloads : DownloadValues, pypiDownloads : {0, 1000},
           mentions7d : 0..MaxMentions, mentions30d : 0..MaxMentions,
           avgScore : AvgScoreValues,
           sentimentAvg : {ClampSentiment(v) : v \in RawSentiments}] :
     /\ in.mentions7d <= in.mentions30d
     /\ in.mentions30d = 0 => in.avgScore = 0 /\ in.sentimentAvg = 0}

\* `const vibeScore = computeVibeScore({...})` for the next artifact.
VibeCompute ==
  /\ vibe.pc = "idle"
  /\ \E in \in VibeInputs :
       vibe' = [vibe EXCEPT !.pc = "computed", !.input = in,
                            !.components = VibeSignals(in),
                            !.score = computeVibeScore(in)]
  /\ UNCHANGED <<pipeVars, gf, bat, part, pool, val, sel, men, trend, ex, rep, lnk, slg>>

\* The sbPatch of the artifact; a failure is logged and the artifact
\* keeps its columns.
VibePatch ==
  /\ vibe.pc = "computed"
  /\ \E ok \in BOOLEAN :
       vibe' = IF ok
                 THEN [vibe EXCEPT
                         !.pc = "updated",
                         !.stored =
                            [vibe_score |-> vibe.score,
                             npm_downloads_weekly |-> vibe.input.npmDownloads,
                             pypi_downloads_weekly |-> vibe.input.pypiDownloads,
                             mention_count_7d |-> vibe.input.mentions7d,
                             mention_count_30d |-> vibe.input.mentions30d,
                             sentiment_avg |-> vibe.input.sentimentAvg]]
               ELSE [vibe EXCEPT !.pc = "notUpdated"]
  /\ UNCHANGED <<pipeVars, gf, bat, part, pool, val, sel, men, trend, ex, rep, lnk, slg>>

\* The vibe panel renders the artifact.
VibePanel ==
  /\ vibe.pc = "updated"
  /\ vibe' = [vibe EXCEPT !.pc = "shown", !.shown = computeComponents(vibe.stored)]
  /\ UNCHANGED <<pipeVars, gf, bat, part, pool, val, sel, men, trend, ex, rep, lnk, slg>>

VibeNext ==
  /\ vibe.pc \in {"notUpdated", "shown"}
  /\ vibe' = VibeIdle
  /\ UNCHANGED <<pipeVars, gf, bat, part, pool, val, sel, men, trend, ex, rep, lnk, slg>>

NextVibe == VibeCompute \/ VibePatch \/ VibePanel \/ VibeNext

SpecVibe == Init /\ [][NextVibe]_vars

\* ============================================= buildArtifact: trendingScore
\* Without Math.max(1, stars): Math.log10(0) is -Infinity, and so are its
\* floor and every sum with it (here: a number below every score).
starScoreOfRaw(stars) ==
  IF stars < 1 THEN -1000 ELSE Min(40, FloorLog(stars, Log15Steps))

starScoreWrapping(stars) == FloorLog(Max(1, stars), Log15Steps) % 41

starScore(stars) == Min(40, FloorLog(Max(1, stars), Log15Steps))

forkScore(forks) == Min(15, FloorLog(Max(1, forks), Log8Steps))

recencyScore(daysAgo) ==
  IF daysAgo < 14 THEN 20 ELSE IF daysAgo < 30 THEN 15 ELSE IF daysAgo < 90 THEN 8 ELSE 0

trendingScore(stars, forks, daysAgo) ==
  Min(100, starScore(stars) + forkScore(forks) + recencyScore(daysAgo))

\* Whole days since github_updated_at, one value per branch of
\* recencyScore and one for a timestamp ahead of the clock.
DaysValues == {-1, 2, 14, 30, 90}

\* buildArtifact(rawRepo, ...) computes the score of a staged repository.
TrendingBuild ==
  /\ trend.pc = "idle"
  /\ \E stars \in 0..MaxStars, forks \in 0..MaxForks, daysAgo \in DaysValues :
       trend' = [TrendIdle EXCEPT !.pc = "built", !.stars = stars, !.forks = forks,
                                  !.daysAgo = daysAgo,
                                  !.trendingScore = trendingScore(stars, forks, daysAgo)]
  /\ UNCHANGED <<pipeVars, gf, bat, part, pool, val, sel, men, vibe, ex, rep, lnk, slg>>

\* buildArtifact for the same repository and recency with one more star.
TrendingMoreStars ==
  /\ trend.pc = "built" /\ ~trend.grew
  /\ trend.stars < MaxStars
  /\ trend' = [trend EXCEPT
                 !.stars = @ + 1, !.before = trend.trendingScore, !.grew = TRUE,
                 !.trendingScore = trendingScore(trend.stars + 1, trend.forks, trend.daysAgo)]
  /\ UNCHANGED <<pipeVars, gf, bat, part, pool, val, sel, men, vibe, ex, rep, lnk, slg>>

\* The same with one more fork.
TrendingMoreForks ==
  /\ trend.pc = "built" /\ ~trend.grew
  /\ trend.forks < MaxForks
  /\ trend' = [trend EXCEPT
                 !.forks = @ + 1, !.before = trend.trendingScore, !.grew = TRUE,
                 !.trendingScore = trendingScore(trend.stars, trend.forks + 1, trend.daysAgo)]
  /\ UNCHANGED <<pipeVars, gf, bat, part, pool, val, sel, men, vibe, ex, rep, lnk, slg>>

TrendingDone ==
  /\ trend.pc = "built"
  /\ trend' = TrendIdle
  /\ UNCHANGED <<pipeVars, gf, bat, part, pool, val, sel, men, vibe, ex, rep, lnk, slg>>

NextTrending == TrendingBuild \/ TrendingMoreStars \/ TrendingMoreForks \/ TrendingDone

SpecTrending == Init /\ [][NextTrending]_vars

\* ====================================================== end-to-end scoring
\* A candidate with about 450 stars and 89 forks, built into an artifact
\* by the enrich run ...
ScoreTrending ==
  /\ ex.pc = "idle"
  /\ \E stars \in 448..452, forks \in 87..91, daysAgo \in {2, 20} :
       ex' = [ExIdle EXCEPT !.pc = "built", !.stars = stars, !.forks = forks,
                            !.daysAgo = daysAgo,
                            !.trendingScore = trendingScore(stars, forks, daysAgo)]
  /\ UNCHANGED <<pipeVars, gf, bat, part, pool, val, sel, men, vibe, trend, rep, lnk, slg>>

\* ... and scored by the vibe-score run with about 1000 downloads, five
\* mentions of average score about 50 and sentiment 0.4.
ScoreVibe ==
  /\ ex.pc = "built"
  /\ \E in \in [npmDownloads : {999, 1000}, pypiDownloads : {0},
                mentions7d : {0, 2}, mentions30d : {5},
                avgScore : {49, 50, 51}, sentimentAvg : {8}] :
       ex' = [ex EXCEPT !.pc = "scored", !.input = in,
                        !.vibeScore = computeVibeScore(in)]
  /\ UNCHANGED <<pipeVars, gf, bat, part, pool, val, sel, men, vibe, trend, rep, lnk, slg>>

ScoreDone ==
  /\ ex.pc = "scored"
  /\ ex' = ExIdle
  /\ UNCHANGED <<pipeVars, gf, bat, part, pool, val, sel, men, vibe, trend, rep, lnk, slg>>

NextExample == ScoreTrending \/ ScoreVibe \/ ScoreDone

SpecExample == Init /\ [][NextExample]_vars

\* ============================================================== repairJSON
\* Text is a sequence of characters. The characters that matter to
\* repairJSON stand for themselves ("[", ",", "\"", "\\", the letters n, r
\* and t of the escapes); NL, CR, TAB and SP are the white space and CTL
\* any other control character; "FENCE" is a code fence; every other entry
\* is a run of letters (`null` is the JSON literal).
IsSpace(ch) == ch \in {"SP", "NL", "CR", "TAB"}

IsLineTerminator(ch) == ch \in {"NL", "CR"}

IsControl(ch) == ch \in {"NL", "CR", "TAB", "CTL"}

\* The letters JSON allows after a backslash, by the first letter of the
\* run.
EscapeStarts == {"\"", "\\", "n", "r", "t", "null"}

MinOf(S) == CHOOSE x \in S : \A y \in S : x <= y

MaxOf(S) == CHOOSE x \in S : \A y \in S : x >= y

\* The end of the white space that starts at i: the first index from i on
\* whose character is not white space, Len(s) + 1 if there is none.
SkipSpace(s, i) ==
  LET rest == {k \in i..Len(s) : ~IsSpace(s[k])}
  IN  IF rest = {} THEN Len(s) + 1 ELSE MinOf(rest)

\* s.replace(/^```(?:json)?\s*/gm, '')
RECURSIVE stripOpeningFence(_, _)
stripOpeningFence(s, i) ==
  IF i > Len(s) THEN <<>>
  ELSE IF s[i] = "FENCE" /\ (i = 1 \/ IsLineTerminator(s[i - 1]))
       THEN LET j == IF i < Len(s) /\ s[i + 1] = "json" THEN i + 2 ELSE i + 1
            IN  stripOpeningFence(s, SkipSpace(s, j))
       ELSE <<s[i]>> \o stripOpeningFence(s, i + 1)

\* .replace(/```\s*$/gm, ''): the fence and the white space after it, up
\* to the end of the text or to the last line end within that white space.
RECURSIVE stripClosingFence(_, _)
stripClosingFence(s, i) ==
  IF i > Len(s) THEN <<>>
  ELSE IF s[i] = "FENCE"
       THEN LET e == SkipSpace(s, i + 1)
                ends == {k \in (i + 1)..(e - 1) : IsLineTerminator(s[k])}
            IN  IF e = Len(s) + 1 THEN <<>>
                ELSE IF ends # {} THEN stripClosingFence(s, MaxOf(ends))
                ELSE <<s[i]>> \o stripClosingFence(s, i + 1)
       ELSE <<s[i]>> \o stripClosingFence(s, i + 1)

stripTrailingCommasNever(s, i) == s

\* .replace(/,\s*([\]}])/g, '$1')
RECURSIVE stripTrailingCommas(_, _)
stripTrailingCommas(s, i) ==
  IF i > Len(s) THEN <<>>
  ELSE IF s[i] = ","
       THEN LET e == SkipSpace(s, i + 1)
            IN  IF e <= Len(s) /\ s[e] \in {"]", "}"}
                THEN <<s[e]>> \o stripTrailingCommas(s, e + 1)
                ELSE <<s[i]>> \o stripTrailingCommas(s, i + 1)
       ELSE <<s[i]>> \o stripTrailingCommas(s, i + 1)

\* s.match(/\[[\s\S]*\]/): from the first "[" to the last "]".
matchArray(s) ==
  LET opens  == {k \in 1..Len(s) : s[k] = "["}
      closes == {k \in 1..Len(s) : s[k] = "]"}
  IN  IF opens # {} /\ closes # {} /\ MaxOf(closes) > MinOf(opens)
      THEN [found |-> TRUE, text |-> SubSeq(s, MinOf(opens), MaxOf(closes))]
      ELSE [found |-> FALSE, text |-> <<>>]

\* JSON.parse: a value is [kind, items]; the items of a string are its
\* characters, of an array its values, of an object its members [key, val].
ParseFailed == [ok |-> FALSE, next |-> 0, val |-> JsonNull]

Parsed(next, kind, items) ==
  [ok |-> TRUE, next |-> next, val |-> [kind |-> kind, items |-> items]]

RECURSIVE ParseString(_, _, _)
ParseString(s, j, acc) ==
  IF j > Len(s) THEN ParseFailed
  ELSE IF s[j] = "\"" THEN Parsed(j + 1, "string", acc)
  ELSE IF s[j] = "\\"
       THEN IF j < Len(s) /\ s[j + 1] \in EscapeStarts
            THEN ParseString(s, j + 2, acc \o <<s[j], s[j + 1]>>)
            ELSE ParseFailed
  ELSE IF IsControl(s[j]) THEN ParseFailed
  ELSE ParseString(s, j + 1, Append(acc, s[j]))

RECURSIVE ParseValue(_, _)
RECURSIVE ParseElements(_, _, _)
RECURSIVE ParseMembers(_, _, _)

ParseValue(s, i) ==
  IF i > Len(s) THEN ParseFailed
  ELSE IF s[i] = "\"" THEN ParseString(s, i + 1, <<>>)
  ELSE IF s[i] = "null" THEN Parsed(i + 1, "null", <<>>)
  ELSE IF s[i] = "["
       THEN LET j == SkipSpace(s, i + 1)
            IN  IF j <= Len(s) /\ s[j] = "]" THEN Parsed(j + 1, "array", <<>>)
                ELSE ParseElements(s, j, <<>>)
  ELSE IF s[i] = "{"
       THEN LET j == SkipSpace(s, i + 1)
            IN  IF j <= Len(s) /\ s[j] = "}" THEN Parsed(j + 1, "object", <<>>)
                ELSE ParseMembers(s, j, <<>>)
  ELSE ParseFailed

ParseElements(s, i, acc) ==
  LET v == ParseValue(s, i)
      k == SkipSpace(s, v.next)
  IN  IF ~v.ok \/ k > Len(s) THEN ParseFailed
      ELSE IF s[k] = "," THEN ParseElements(s, SkipSpace(s, k + 1), Append(acc, v.val))
      ELSE IF s[k] = "]" THEN Parsed(k + 1, "array", Append(acc, v.val))
      ELSE ParseFailed

ParseMembers(s, i, acc) ==
  IF i > Len(s) \/ s[i] # "\"" THEN ParseFailed
  ELSE LET key == ParseString(s, i + 1, <<>>)
           c   == SkipSpace(s, key.next)
       IN  IF ~key.ok \/ c > Len(s) \/ s[c] # ":" THEN ParseFailed
           ELSE LET v == ParseValue(s, SkipSpace(s, c + 1))
                    k == SkipSpace(s, v.next)
                    member == [key |-> key.val.items, val |-> v.val]
                IN  IF ~v.ok \/ k > Len(s) THEN ParseFailed
                    ELSE IF s[k] = ","
                         THEN ParseMembers(s, SkipSpace(s, k + 1), Append(acc, member))
                    ELSE IF s[k] = "}"
                         THEN Parsed(k + 1, "object", Append(acc, member))
                    ELSE ParseFailed

\* JSON.parse(text): one value with nothing but white space around it.
JSONparse(s) ==
  LET v == ParseValue(s, SkipSpace(s, 1))
  IN  IF v.ok /\ SkipSpace(s, v.next) = Len(s) + 1 THEN v ELSE ParseFailed

\* The loop of repairJSON over src that escapes the control characters
\* found inside strings.
RECURSIVE fixControlChars(_, _, _, _)
fixControlChars(src, i, inString, escaped) ==
  IF i > Len(src) THEN <<>>
  ELSE LET ch == src[i]
           verbatim == escaped \/ ch \in {"\\", "\""} \/ ~inString
           fixed == IF verbatim THEN <<ch>>
                    ELSE IF ch = "NL" THEN <<"\\", "n">>
                    ELSE IF ch = "CR" THEN <<"\\", "r">>
                    ELSE IF ch = "TAB" THEN <<"\\", "t">>
                    ELSE IF ch = "CTL" THEN <<>>
                    ELSE <<ch>>
           quote == ~escaped /\ ~(ch = "\\" /\ inString) /\ ch = "\""
       IN  fixed \o fixControlChars(src, i + 1, inString # quote,
                                    ~escaped /\ ch = "\\" /\ inString)

\* match.replace(/\n/g, '\\n').replace(/\r/g, '\\r').replace(/\t/g, '\\t')
RECURSIVE escapeBreaks(_)
escapeBreaks(match) ==
  IF match = <<>> THEN <<>>
  ELSE (CASE Head(match) = "NL"  -> <<"\\", "n">>
          [] Head(match) = "CR"  -> <<"\\", "r">>
          [] Head(match) = "TAB" -> <<"\\", "t">>
          [] OTHER               -> <<Head(match)>>)
       \o escapeBreaks(Tail(match))

\* nuclear.replace(/"([^"]*?)"/g, ...): each quote with the next one.
RECURSIVE nuclearQuotes(_, _)
nuclearQuotes(s, i) ==
  IF i > Len(s) THEN <<>>
  ELSE LET closes == {k \in (i + 1)..Len(s) : s[k] = "\""}
       IN  IF s[i] = "\"" /\ closes # {}
           THEN escapeBreaks(SubSeq(s, i, MinOf(closes)))
                \o nuclearQuotes(s, MinOf(closes) + 1)
           ELSE <<s[i]>> \o nuclearQuotes(s, i + 1)

\* src.replace(/[\x00-\x08\x0b\x0c\x0e-\x1f]/g, '')
dropControls(src) == SelectSeq(src, LAMBDA ch : ch # "CTL")

\* repairJSON(raw): the stage that parsed and its value, or the throw.
repairJSON(raw) ==
  LET s == stripTrailingCommas(
             stripClosingFence(stripOpeningFence(raw, 1), 1), 1)
      m == matchArray(s)
      src == IF m.found THEN m.text ELSE s
      fixed == stripTrailingCommas(fixControlChars(src, 1, FALSE, FALSE), 1)
      nuclear == stripTrailingCommas(nuclearQuotes(dropControls(src), 1), 1)
      Returned(stage, v) ==
        [threw |-> FALSE, stage |-> stage, result |-> v.val]
  IN  IF JSONparse(s).ok THEN Returned(1, JSONparse(s))
      ELSE IF m.found /\ JSONparse(m.text).ok THEN Returned(2, JSONparse(m.text))
      ELSE IF JSONparse(fixed).ok THEN Returned(3, JSONparse(fixed))
      ELSE IF JSONparse(nuclear).ok THEN Returned(4, JSONparse(nuclear))
      ELSE [threw |-> TRUE, stage |-> 5, result |-> JsonNull]

\* The inputs of testEdgeCaseJSON and testRepairJSON, by what was done to
\* a clean answer: text put before it, a fence put around it, the raw
\* characters put into its description, commas put before its closing
\* brackets, line breaks put between its parts.
Preambles ==
  {<<>>, <<"Here", "SP", "is", "SP", "the", "SP", "classification", ":", "NL", "NL">>}

\* A fence comes with its closing fence.
Fences ==
  {[open |-> <<>>, close |-> <<>>],
   [open |-> <<"FENCE", "json", "NL">>, close |-> <<"NL", "FENCE">>],
   [open |-> <<"FENCE", "NL">>, close |-> <<"NL", "FENCE">>],
   [open |-> <<"FENCE", "json", "NL">>, close |-> <<"NL", "FENCE", "NL">>]}

Descriptions ==
  {<<"A", "SP", "tool">>, <<"A", "\\", "n", "tool">>,
   <<"It", "NL", "does", "NL", "things">>, <<"Col1", "TAB", "Col2">>,
   <<"hello", "CR", "NL", "world", "TAB", "tab">>}

Commas == {<<>>, <<",">>}

Breaks == {<<>>, <<"NL", "SP", "SP">>}

Answer(description, tagComma, memberComma, objectComma, br) ==
  <<"[">> \o br \o <<"{">> \o br
  \o <<"\"", "artifact_type", "\"", ":", "\"", "skill", "\"", ",">> \o br
  \o <<"\"", "long_description", "\"", ":", "\"">> \o description \o <<"\"", ",">> \o br
  \o <<"\"", "tags", "\"", ":", "[", "\"", "api", "\"">> \o tagComma \o <<"]", ",">> \o br
  \o <<"\"", "npm_package_name", "\"", ":", "null">> \o memberComma \o br
  \o <<"}">> \o objectComma \o br \o <<"]">>

Corpus ==
  {pre \o f.open \o Answer(d, c1, c2, c3, br) \o f.close :
     pre \in Preambles, f \in Fences, d \in Descriptions, c1 \in Commas,
     c2 \in Commas, c3 \in Commas, br \in Breaks}

\* Answers outside the corpus: no JSON at all, an answer cut short, a
\* backslash before a raw line break, an array of nothing but null.
OtherAnswers ==
  {<<"not", "SP", "json", "SP", "at", "SP", "all", "SP", "{", "{", "{">>,
   <<"[", "{", "\"", "artifact_type", "\"", ":", "\"", "skill">>,
   <<"[", "{", "\"", "artifact_type", "\"", ":", "\"", "a", "\\", "NL", "b", "\"", "}", "]">>,
   <<"[", "null", "]">>,
   <<"{", "\"", "artifact_type", "\"", ":", "\"", "skill", "\"", "}">>}

\* `const result = repairJSON(tc.input)` with its try/catch.
RepairCall ==
  /\ rep.pc = "idle"
  /\ \E raw \in Corpus \cup OtherAnswers :
       rep' = [RepIdle EXCEPT !.pc = "called", !.raw = raw]
  /\ UNCHANGED <<pipeVars, gf, bat, part, pool, val, sel, men, vibe, trend, ex, lnk, slg>>

RepairReturn ==
  /\ rep.pc = "called"
  /\ LET r == repairJSON(rep.raw)
     IN  rep' = [rep EXCEPT !.pc = "returned", !.threw = r.threw,
                            !.stage = r.stage, !.result = r.result]
  /\ UNCHANGED <<pipeVars, gf, bat, part, pool, val, sel, men, vibe, trend, ex, lnk, slg>>

RepairDone ==
  /\ rep.pc = "returned"
  /\ rep' = RepIdle
  /\ UNCHANGED <<pipeVars, gf, bat, part, pool, val, sel, men, vibe, trend, ex, lnk, slg>>

NextRepair == RepairCall \/ RepairReturn \/ RepairDone

SpecRepair == Init /\ [][NextRepair]_vars

\* ====================================================== extractGithubLinks
\* A README is the sequence of its markdown links to github.com, each with
\* its title and the text of its URL after `github.com/`, both as
\* sequences of characters: "/", "#" and "SP" stand for themselves and
\* every other entry is a run of the characters [a-zA-Z0-9._-].
MaxLinks == 2

IsNameChar(ch) == ch \notin {"/", "#", "SP"}

\* The end of the run of name characters that starts at i.
NameEnd(path, i) ==
  LET rest == {k \in i..Len(path) : ~IsNameChar(path[k])}
  IN  IF rest = {} THEN Len(path) + 1 ELSE MinOf(rest)

\* The second group of the regular expression,
\* ([a-zA-Z0-9._-]+\/[a-zA-Z0-9._-]+), against the text after
\* `github.com/`; what follows it is matched by \/?[^)]*.
fullNameOf(path) ==
  LET slash == NameEnd(path, 1)
      end   == NameEnd(path, slash + 1)
  IN  IF slash > 1 /\ slash <= Len(path) /\ path[slash] = "/" /\ end > slash + 1
      THEN [matched |-> TRUE, fullName |-> SubSeq(path, 1, end - 1)]
      ELSE [matched |-> FALSE, fullName |-> <<>>]

\* String.prototype.includes
includes(text, word) ==
  \E i \in 1..(Len(text) - Len(word) + 1) :
    SubSeq(text, i, i + Len(word) - 1) = word

\* `fullName.includes('/issues') || ... || fullName.includes('/tree')`
isNonRepo(fullName) ==
  \E word \in {<<"/", "issues">>, <<"/", "pull">>, <<"/", "wiki">>,
               <<"/", "blob">>, <<"/", "tree">>} : includes(fullName, word)

\* title.trim()
RECURSIVE trim(_)
trim(title) ==
  IF title # <<>> /\ Head(title) = "SP" THEN trim(Tail(title))
  ELSE IF title # <<>> /\ title[Len(title)] = "SP"
       THEN trim(SubSeq(title, 1, Len(title) - 1))
  ELSE title

\* fullName.replace(/\.git$/, '')
withoutGit(fullName) ==
  IF fullName[Len(fullName)] = ".git"
  THEN SubSeq(fullName, 1, Len(fullName) - 1) ELSE fullName

Titles == {<<"Tool">>, <<"SP", "Tool", "SP">>}

Paths ==
  {<<"owner", "/", "repo">>,
   <<"owner", "/", "repo", ".git">>,
   <<"owner", "/", "repo", "/">>,
   <<"owner", "/", "repo", "#", "readme">>,
   <<"owner", "/", "other", "/", "issues", "/", "5">>,
   <<"owner", "/", "other", "/", "pull", "s">>,
   <<"owner", "/", "other", "/", "wiki">>,
   <<"owner", "/", "other", "/", "tree", "/", "main", "/", "docs">>,
   <<"owner", "/", "other", "/", "blob", "/", "main", "/", "README.md">>,
   <<"owner", "/", "wiki", "-tool">>,
   <<"owner">>,
   <<"owner", "/">>}

\* `const links = extractGithubLinks(readme)`
ExtractCall ==
  /\ lnk.pc = "idle"
  /\ \E n \in 1..MaxLinks :
       \E markdown \in [1..n -> [title : Titles, path : Paths]] :
         lnk' = [LnkIdle EXCEPT !.pc = "exec", !.markdown = markdown]
  /\ UNCHANGED <<pipeVars, gf, bat, part, pool, val, sel, men, vibe, trend, ex, rep, slg>>

\* One turn of `while ((match = regex.exec(markdown)) !== null)`.
ExtractExec ==
  /\ lnk.pc = "exec"
  /\ LET next == {k \in (lnk.lastIndex + 1)..Len(lnk.markdown) :
                    fullNameOf(lnk.markdown[k].path).matched}
     IN  IF next = {} THEN lnk' = [lnk EXCEPT !.pc = "returned"]
         ELSE LET k == MinOf(next)
                  title == lnk.markdown[k].title
                  path == lnk.markdown[k].path
                  fullName == fullNameOf(path).fullName
              IN  lnk' = [lnk EXCEPT
                    !.lastIndex = k,
                    !.links = IF isNonRepo(fullName) THEN @
                              ELSE Append(@, [title |-> trim(title),
                                              fullName |-> withoutGit(fullName)])]
  /\ UNCHANGED <<pipeVars, gf, bat, part, pool, val, sel, men, vibe, trend, ex, rep, slg>>

ExtractDone ==
  /\ lnk.pc = "returned"
  /\ lnk' = LnkIdle
  /\ UNCHANGED <<pipeVars, gf, bat, part, pool, val, sel, men, vibe, trend, ex, rep, slg>>

NextExtract == ExtractCall \/ ExtractExec \/ ExtractDone

SpecExtract == Init /\ [][NextExtract]_vars

\* ==================================================================== slug
\* A repository name is a sequence of characters: the letters a, b, c and
\* Z, and "/", "-", "." and "_".
MaxSlugRows == 3

OwnerLogins == {<<"a">>, <<"a", "-", "b">>, <<"Z">>}

RepoNames ==
  {<<"c">>, <<"b", "-", "c">>, <<"b", "_", "c">>, <<"b", "c">>, <<"b", ".", "c">>}

\* github_full_name of the repositories GitHub can hold: owner/name.
FullNames == {o \o <<"/">> \o n : o \in OwnerLogins, n \in RepoNames}

\* String.prototype.replace('/', '-'): the first "/" only.
replaceFirstSlash(name) ==
  LET at == {k \in 1..Len(name) : name[k] = "/"}
  IN  IF at = {} THEN name ELSE [name EXCEPT ![MinOf(at)] = "-"]

toLowerCase(name) ==
  [k \in 1..Len(name) |-> IF name[k] = "Z" THEN "z" ELSE name[k]]

\* .replace(/[^a-z0-9-]/g, '')
stripOthers(name) ==
  SelectSeq(name, LAMBDA ch : ch \in {"a", "b", "c", "z", "-"})

\* `const slug = rawRepo.github_full_name.replace('/', '-').toLowerCase()
\*                 .replace(/[^a-z0-9-]/g, '')`
slugOf(github_full_name) ==
  stripOthers(toLowerCase(replaceFirstSlash(github_full_name)))

\* buildArtifact for a repository that has no artifact yet, or has one.
SlugBuild ==
  /\ slg.pc = "idle"
  /\ \E name \in FullNames :
       /\ \/ Cardinality(slg.artifacts) < MaxSlugRows
          \/ \E a \in slg.artifacts : a.github_repo_full_name = name
       /\ slg' = [slg EXCEPT !.pc = "built",
                             !.row = [slug |-> slugOf(name),
                                      github_repo_full_name |-> name]]
  /\ UNCHANGED <<pipeVars, gf, bat, part, pool, val, sel, men, vibe, trend, ex, rep, lnk>>

\* sbUpsert('artifacts', rows, 'github_repo_full_name') under the
\* constraints artifacts_github_repo_full_name_key and artifacts_slug_key:
\* the row of the same repository is updated; a new row is inserted unless
\* another row has its slug, in which case the request fails, in the batch
\* and in the one-by-one fallback alike.
SlugUpsert ==
  /\ slg.pc = "built"
  /\ LET others == {a \in slg.artifacts :
                      a.github_repo_full_name # slg.row.github_repo_full_name}
     IN  slg' = [slg EXCEPT
                   !.pc = "upserted",
                   !.artifacts =
                      IF \E a \in others : a.slug = slg.row.slug THEN @
                      ELSE others \cup {slg.row}]
  /\ UNCHANGED <<pipeVars, gf, bat, part, pool, val, sel, men, vibe, trend, ex, rep, lnk>>

SlugNext ==
  /\ slg.pc = "upserted"
  /\ slg' = [slg EXCEPT !.pc = "idle", !.row = SlgIdle.row]
  /\ UNCHANGED <<pipeVars, gf, bat, part, pool, val, sel, men, vibe, trend, ex, rep, lnk>>

NextSlug == SlugBuild \/ SlugUpsert \/ SlugNext

SpecSlug == Init /\ [][NextSlug]_vars

\* ================================================================== claims
Status(r) == raw_repos[r].enrichment_status

Attempts(r) == raw_repos[r].enrich_attempts

Selectable(r) ==
  \E i \in 1..Len(typeHints) : r \in listPending(raw_repos, typeHints[i])

\* C1: a candidate that started at attempt counter 0 and whose enrichment
\* has failed in MAX_ENRICH_ATTEMPTS runs has status 'skipped' and is not
\* selected by a later run.
C1_SkippedAfterMaxFailures ==
  \A r \in DOMAIN raw_repos :
    failCount[r] >= MAX_ENRICH_ATTEMPTS => Status(r) = "skipped" /\ ~Selectable(r)

\* C2: a discovery run changes no staged candidate's enrichment status or
\* attempt counter, and when every repository it saves is already staged
\* the number of staged candidates stays the same.
C2_RediscoveryKeepsStatus ==
  [][\A p \in Procs : mode[p] = "discover" =>
       /\ \A r \in DOMAIN raw_repos :
            /\ r \in DOMAIN raw_repos'
            /\ raw_repos'[r].enrichment_status = raw_repos[r].enrichment_status
            /\ raw_repos'[r].enrich_attempts = raw_repos[r].enrich_attempts
            /\ raw_repos'[r].artifact_id = raw_repos[r].artifact_id
       /\ (dis'[p].submitted \subseteq DOMAIN raw_repos =>
              DOMAIN raw_repos' = DOMAIN raw_repos)]_vars

\* A finished discovery run has saved again a candidate that is enriched.
C2_Witness ==
  \E p \in Procs :
    /\ mode[p] = "discover" /\ pc[p] = "done"
    /\ \E r \in dis[p].submitted \ dis[p].rejected :
         r \in DOMAIN raw_repos /\ Status(r) = "enriched" /\ Attempts(r) > 0

\* C3: at the end of an enrich run every selected candidate is 'enriched'
\* or carries this run's failure ('failed' or 'skipped', counter bumped).
C3_NoSilentDrop ==
  \A p \in Procs :
    mode[p] = "enrich" /\ pc[p] = "done" =>
      \A r \in DOMAIN enr[p].rows :
        \/ Status(r) = "enriched"
        \/ /\ Status(r) \in {"failed", "skipped"}
           /\ Attempts(r) = enr[p].rows[r].enrich_attempts + 1

\* C4: the artifacts table holds at most one row per repository.
C4_OneArtifactPerRepo ==
  \A a \in artifacts : \A b \in artifacts :
    a.github_repo_full_name = b.github_repo_full_name => a = b

\* An upsert has hit the artifact an earlier enrichment of the same
\* candidate created.
C4_Witness ==
  \E p \in Procs : \E r \in enr[p].updated :
    /\ pc[p] = "done"
    /\ Cardinality({a \in artifacts : a.github_repo_full_name = r}) = 1

\* C5: once upsertArtifacts is through, every candidate whose artifact it
\* wrote is linked to that artifact and has status 'enriched'.
C5_LinkedAfterWrite ==
  \A p \in Procs :
    mode[p] = "enrich" /\ pc[p] = "done" =>
      \A r \in enr[p].written :
        /\ HasArtifact(artifacts, r)
        /\ raw_repos[r].artifact_id = ArtifactId(artifacts, r)
        /\ Status(r) = "enriched"

\* C6: a candidate a run has linked and marked 'enriched' is never in
\* status 'failed' or 'skipped', whatever an overlapping run does.
C6_EnrichedStaysEnriched ==
  \A r \in DOMAIN raw_repos :
    raw_repos[r].artifact_id # 0 => Status(r) \notin {"failed", "skipped"}

\* C7: a discovery run the budget has stopped returns with every buffered
\* candidate passed to the staging upsert.
C7_FlushOnBudget ==
  \A p \in Procs :
    mode[p] = "discover" /\ pc[p] = "done" /\ dis[p].stoppedByBudget =>
      dis[p].seen \subseteq dis[p].submitted /\ dis[p].repoBuffer = <<>>

\* The budget stopped the first query, and the final flush saved what the
\* partitions before the stop had buffered.
C7_Witness ==
  \E p \in Procs :
    /\ mode[p] = "discover" /\ pc[p] = "done" /\ dis[p].stoppedByBudget
    /\ dis[p].qi = 1
    /\ dis[p].submitted # {}
    /\ dis[p].submitted \subseteq DOMAIN raw_repos

\* A step of p that fetches a page after the first of a partition.
StartsPage(p) ==
  /\ pc[p] = "page" /\ dis[p].page >= 2
  /\ (dis'[p] # dis[p] \/ pc'[p] # pc[p])

StartsPartition(p) == pc[p] = "bucket" /\ pc'[p] = "page"

StartsQuery(p) == pc[p] = "query" /\ pc'[p] = "bucket"

StartsWave(p) == pc[p] # "readme" /\ pc'[p] = "readme"

C9_FallbackPersistsWritable ==
  \A p \in Procs :
    /\ mode[p] = "discover" =>
         (dis[p].submitted \ dis[p].rejected) \subseteq DOMAIN raw_repos
    /\ mode[p] = "enrich" =>
         \A r \in (enr[p].builtAll \ SeqToSet(enr[p].built)) \ enr[p].rejected :
           HasArtifact(artifacts, r)

\* A chunk of two rows failed as a batch; the fallback skipped the row
\* the store rejects and persisted the other.
C9_Witness ==
  \E p \in Procs :
    /\ mode[p] = "discover" /\ pc[p] = "done" /\ dis[p].fellBack
    /\ Cardinality(dis[p].submitted) = 2
    /\ Cardinality(dis[p].rejected) = 1
    /\ dis[p].rejected \cap DOMAIN raw_repos = {}
    /\ (dis[p].submitted \ dis[p].rejected) \subseteq DOMAIN raw_repos

\* C10: an artifact whose junction write failed stays written, its
\* candidate is linked (the link patch being accepted), and the run goes
\* on to the end of the batch.
C10_JunctionFailureIsolated ==
  \A p \in Procs :
    /\ \A r \in enr[p].junctionFailed :
         /\ HasArtifact(artifacts, r)
         /\ r \in enr[p].linkTried
         /\ (faults = 1 /\ MaxFaults >= 1 =>
               /\ Status(r) = "enriched"
               /\ raw_repos[r].artifact_id = ArtifactId(artifacts, r))
    /\ (mode[p] = "enrich" /\ pc[p] = "done") =>
         enr[p].builtAll \subseteq enr[p].written \cup enr[p].rejected

\* The junction write of the first artifact of a batch failed, and the
\* second artifact of the batch was written and linked after it.
C10_Witness ==
  \E p \in Procs :
    /\ pc[p] = "done"
    /\ RepoOrder[1] \in enr[p].junctionFailed
    /\ Status(RepoOrder[1]) = "enriched"
    /\ RepoOrder[2] \in enr[p].linkTried
    /\ Status(RepoOrder[2]) = "enriched"

\* C12: a githubFetch call that has received only 403/429 responses has
\* slept at most 120 s before the retry it is about to issue, has issued
\* at most GITHUB_MAX_RETRIES + 1 requests, and returns null.
C12_RateLimitRetryBudget ==
  gf.onlyRateLimited /\ gf.pc # "idle" =>
    /\ gf.requests <= GITHUB_MAX_RETRIES + 1
    /\ (gf.pc = "fetch" => gf.proactive + gf.backoff <= 120000)
    /\ (gf.pc = "returned" => gf.result = "null")

\* C13: every sleep of githubFetch is at most 120 s, whatever the
\* rate-limit headers of the response say.
C13_SleepsBounded ==
  gf.proactive <= 120000 /\ gf.backoff <= 120000

\* C14: the githubFetch call that receives a 404 or 422 has returned null;
\* it is not at the head of its attempt loop again.
C14_NotFoundNotRetried ==
  gf.status \in {404, 422} => gf.pc = "returned" /\ gf.result = "null"

\* A 422 arrived on a retry, after a rate-limited attempt, and ended the call.
C14_Witness ==
  /\ gf.pc = "returned" /\ gf.status = 422 /\ gf.result = "null"
  /\ gf.attempt = 1 /\ gf.requests = 2

\* C11: a batched classification call that returns without a parsed
\* batch response has submitted every item of the batch to a single-item
\* call.
C11_FallbackOnBatchFailure ==
  bat.pc = "returned" /\ bat.via # "batch" => bat.singles = 1..bat.n

\* C15: a step of the page loop of searchRepos ends the paging of its
\* partition exactly when the page it received has fewer than per_page
\* items, or it was the second empty response in a row, or the page
\* budget is used up; otherwise the next page is requested.
C15_PagingStops ==
  [][\A p \in Procs :
       (pc[p] = "page" /\ (dis'[p] # dis[p] \/ pc'[p] # pc[p])) =>
         LET d == dis[p]
             e == dis'[p]
             maxPages == Min(SEARCH_QUERIES[d.qi].pages, PAGE_CAP)
             received == e.consecutiveEmpty = 0
             got == Len(e.repos) - Len(d.repos)
         IN /\ pc'[p] = "collect" <=>
                 \/ received /\ got < PER_PAGE
                 \/ e.consecutiveEmpty >= 2
                 \/ d.page >= maxPages
            /\ pc'[p] # "collect" => pc'[p] = "page" /\ e.page = d.page + 1]_vars

\* The first response of a partition was empty, the second a full page,
\* and searchRepos is about to request the third page.
C15_Witness ==
  \E p \in Procs :
    /\ pc[p] = "page" /\ dis[p].page = 3
    /\ dis[p].consecutiveEmpty = 0
    /\ Len(dis[p].repos) = PER_PAGE

\* C16: in a discovery run the buffer of candidates waiting for
\* saveReposBatch holds no identifier twice and none that the run has
\* already passed to saveReposBatch, so each identifier is passed once.
C16_NoDuplicateSubmission ==
  \A p \in Procs :
    mode[p] = "discover" =>
      LET buf == dis[p].repoBuffer IN
        /\ \A i \in 1..Len(buf) : \A j \in 1..Len(buf) :
             buf[i].repo = buf[j].repo => i = j
        /\ BufferNames(buf) \cap dis[p].submitted = {}
        /\ BufferNames(buf) \cup dis[p].submitted = dis[p].seen

\* A later partition has returned a repository that this run has already
\* saved, and the dedup loop is about to go over it.
C16_Witness ==
  \E p \in Procs :
    /\ mode[p] = "discover" /\ pc[p] = "collect"
    /\ dis[p].qi = 2
    /\ \E r \in SeqToSet(dis[p].repos) : r \in dis[p].submitted /\ r \in DOMAIN raw_repos

C18_BoundedInFlight ==
  Cardinality(InFlight) <= ENRICH_CONCURRENCY

\* All workers of the pool have a call in flight while items are waiting.
C18_Witness ==
  /\ pool.pc = "running"
  /\ Cardinality(InFlight) = ENRICH_CONCURRENCY
  /\ pool.nextIdx < pool.n

\* C19: an enrich run is never cut short inside a wave: it ends early
\* only where the selection query failed, before the first wave.
C19_WaveNotInterrupted ==
  \A p \in Procs :
    mode[p] = "enrich" /\ pc[p] = "fatal" => enr[p].start = 0

\* C20: a run that has passed startup (validateEnv, loadLookups) never
\* ends in main().catch, which exits with status 1.
C20_NoExitOneAfterStartup ==
  \A p \in Procs :
    mode[p] \in {"discover", "enrich"} => pc[p] # "fatal"

\* C21: no candidate has status 'skipped' while its enrichment has failed
\* in fewer than MAX_ENRICH_ATTEMPTS runs.
C21_SkippedOnlyAfterMaxFailures ==
  \A r \in DOMAIN raw_repos :
    Status(r) = "skipped" => failCount[r] >= MAX_ENRICH_ATTEMPTS

\* The value, where the answer has it, is a list within the schema.
ListWithin(v, vocabulary, maxLen) ==
  v.kind # "absent" =>
    /\ v.kind = "array"
    /\ SeqToSet(v.items) \subseteq vocabulary
    /\ Len(v.items) <= maxLen

\* C22: every non-null result of validateEnrichment has its type in
\* VALID_TYPES, its category in GEMINI_CATEGORIES, its compatible
\* platforms within GEMINI_PLATFORMS and at most TAGS_KEPT tags.
C22_ValidatedConforms ==
  val.pc = "validated" /\ val.out.object =>
    /\ val.out.artifact_type \in VALID_TYPES
    /\ val.out.category \in GEMINI_CATEGORIES
    /\ ListWithin(val.out.compatible_platforms, GEMINI_PLATFORMS,
                  Len(PlatformLabels))
    /\ ListWithin(val.out.tags, 1..MaxTags, TAGS_KEPT)

OutsideTaxonomy(p) ==
  p.object /\ (p.artifact_type \notin VALID_TYPES \/ p.category \notin GEMINI_CATEGORIES)

C24_AtMostLimit ==
  sel.pending <= sel.limit /\ sel.processed <= sel.limit

\* C25: a vibe-score run changes no field other than sentiment of a
\* mention row that existed when the run started: not the artifact it is
\* attached to, not its score.
C25_MentionImmutable ==
  \A k \in DOMAIN men.before :
    /\ k \in DOMAIN men.table
    /\ men.table[k].artifact_id = men.before[k].artifact_id
    /\ men.table[k].score = men.before[k].score

\* C26: the components recomputed from the columns of an updated
\* artifact are the components its vibe score was computed from, and their
\* sum, clamped to 100, is the stored vibe score.
C26_ComponentsReproducible ==
  vibe.pc = "shown" =>
    /\ vibe.shown = vibe.components
    /\ Min(100, SumOf(vibe.shown)) = vibe.stored.vibe_score

\* C27: the vibe score is min(100, sum of the five signals), with the
\* download and mention signals in 0..30, the quality signal in 0..20, the
\* sentiment and recency signals in 0..10.
C27_VibeIsClampedSum ==
  vibe.pc = "computed" =>
    /\ vibe.score = Min(100, SumOf(vibe.components))
    /\ vibe.components.download \in 0..30
    /\ vibe.components.mention \in 0..30
    /\ vibe.components.quality \in 0..20
    /\ vibe.components.sentiment \in 0..10
    /\ vibe.components.recency \in 0..10

\* Every signal is at its cap and the score is 100.
C27_Witness ==
  /\ vibe.pc = "computed"
  /\ vibe.components = [download |-> 30, mention |-> 30, quality |-> 20,
                        sentiment |-> 10, recency |-> 10]
  /\ vibe.score = 100

\* C28: the trending score of a repository with non-negative stars and
\* forks is an integer between 0 and 100, whatever its update time.
C28_TrendingInRange ==
  trend.pc = "built" => trend.trendingScore \in 0..100

\* A repository without stars and forks, not updated for 90 days, scores
\* 0.
C28_Witness ==
  /\ trend.pc = "built"
  /\ trend.stars = 0 /\ trend.forks = 0 /\ trend.daysAgo >= 90
  /\ trend.trendingScore = 0

\* C29: with the same recency, one more star or one more fork never
\* lowers the trending score.
C29_TrendingMonotone ==
  trend.pc = "built" /\ trend.grew => trend.before <= trend.trendingScore

\* The star that takes a repository over a step of the star term has
\* raised its score, and the score is at its maximum of 75.
C29_Witness ==
  /\ trend.pc = "built" /\ trend.grew
  /\ trend.before < trend.trendingScore
  /\ trend.trendingScore = 75

\* The inputs of the worked example.
ExampleRepo == ex.stars = 450 /\ ex.forks = 89 /\ ex.daysAgo = 2

ExampleSignals ==
  ex.input = [npmDownloads |-> 1000, pypiDownloads |-> 0, mentions7d |-> 2,
              mentions30d |-> 5, avgScore |-> 50, sentimentAvg |-> 8]

\* C30 as claimed: for the worked example the trending score is 74 and
\* the vibe score is 73.
C30_ExampleScores ==
  ex.pc = "scored" /\ ExampleRepo /\ ExampleSignals =>
    ex.trendingScore = 74 /\ ex.vibeScore = 73

\* C30 as amended: for the worked example the trending score is 74 and
\* the vibe score is 72, the quality signal of average score 50 being 16.
C30_ExampleScoresAsComputed ==
  ex.pc = "scored" /\ ExampleRepo /\ ExampleSignals =>
    /\ ex.trendingScore = 74
    /\ ex.vibeScore = 72
    /\ VibeSignals(ex.input) =
         [download |-> 24, mention |-> 15, quality |-> 16, sentiment |-> 7,
          recency |-> 10]

\* The candidate of the worked example has both scores.
C30_Witness ==
  ex.pc = "scored" /\ ExampleRepo /\ ExampleSignals

\* `result[0].artifact_type` as a condition: the value of the last member
\* of that name is neither null nor the empty string.
HasArtifactType(v) ==
  /\ v.kind = "object"
  /\ LET named == {k \in 1..Len(v.items) : v.items[k].key = <<"artifact_type">>}
     IN  /\ named # {}
         /\ LET field == v.items[MaxOf(named)].val
            IN  field.kind # "null" /\ (field.kind = "string" => field.items # <<>>)

\* `Array.isArray(result) && result.length > 0 && result[0].artifact_type`
Classified(r) ==
  /\ ~r.threw
  /\ r.result.kind = "array"
  /\ r.result.items # <<>>
  /\ HasArtifactType(r.result.items[1])

\* C31: for every input of the malformed corpus (fenced, trailing commas,
\* raw line breaks or tabs inside string values, prose before the array)
\* repairJSON returns a non-empty array whose first element has the field
\* artifact_type.
C31_CorpusRepaired ==
  rep.pc = "returned" /\ rep.raw \in Corpus => Classified(rep)

\* An answer with prose before it, a fence around it, raw line breaks in
\* its description and trailing commas was repaired by the third stage.
C31_Witness ==
  /\ rep.pc = "returned" /\ rep.raw \in Corpus /\ rep.stage = 3
  /\ Classified(rep)
  /\ rep.raw[1] = "Here" /\ rep.raw[11] = "FENCE"
  /\ \E k \in 1..Len(rep.raw) : rep.raw[k] = "NL" /\ rep.raw[k - 1] = "It"
  /\ \E k \in 2..Len(rep.raw) : rep.raw[k] = "}" /\ rep.raw[k - 1] = ","

\* The URL leads into the issues, pulls, wiki, tree or blob pages of a
\* repository: the part after owner/repo starts with one of them.
LeadsIntoPages(path) ==
  /\ Len(path) >= 5
  /\ IsNameChar(path[1]) /\ path[2] = "/" /\ IsNameChar(path[3]) /\ path[4] = "/"
  /\ path[5] \in {"issues", "pull", "wiki", "tree", "blob"}

\* C32: a markdown link whose GitHub URL leads into a repository's issues,
\* pulls, wiki, tree or blob pages yields no candidate: a README with
\* nothing but such links gives no links.
C32_PagesFiltered ==
  /\ lnk.pc = "returned"
  /\ \A k \in 1..Len(lnk.markdown) : LeadsIntoPages(lnk.markdown[k].path)
  => lnk.links = <<>>

\* C33: with enrich runs repeated and nothing new discovered, every staged
\* candidate eventually has a terminal status, 'enriched' or 'skipped',
\* for good.
C33_EventuallyTerminal ==
  <>[](\A r \in DOMAIN raw_repos : Status(r) \in {"enriched", "skipped"})

\* C34: at the end of an enrichment run every candidate whose attempt
\* counter has reached MAX_ENRICH_ATTEMPTS has status 'skipped' or
\* 'enriched'.
C34_TerminalAtMaxAttempts ==
  \A p \in Procs :
    mode[p] = "enrich" /\ pc[p] = "done" =>
      \A r \in DOMAIN raw_repos :
        Attempts(r) >= MAX_ENRICH_ATTEMPTS =>
          Status(r) \in {"skipped", "enriched"}

\* C35: when overlapping enrichment runs process the same candidate, each
\* attempt written back raises the stored attempt counter by one, and the
\* counter never goes down.
C35_NoIncrementLost ==
  [][/\ \A r \in DOMAIN raw_repos : Attempts(r)' >= Attempts(r)
     /\ \A p \in Procs :
          /\ mode[p] = "enrich" /\ pc[p] = "writeback"
          /\ enr'[p] # enr[p]
          /\ faults' = faults
          => LET r == Wave(enr[p])[enr[p].j]
             IN  raw_repos'[r].enrich_attempts = Attempts(r) + 1]_vars

\* The candidate's artifact_id is set and is the id of the artifact whose
\* github_repo_full_name is the candidate's github_full_name.
LinkedToOwnArtifact(r) ==
  /\ raw_repos[r].artifact_id # 0
  /\ \E a \in artifacts :
       a.id = raw_repos[r].artifact_id /\ a.github_repo_full_name = r

C37_SlugsDistinct ==
  slg.pc = "upserted" =>
    /\ slg.row \in slg.artifacts
    /\ \A a \in slg.artifacts :
         a.github_repo_full_name # slg.row.github_repo_full_name =>
           a.slug # slg.row.slug

\* Promise.all(workers) is about to resolve: every worker has left its loop.
AllWorkersDone ==
  pool.pc = "running" /\ \A w \in DOMAIN pool.workers : pool.workers[w].st = "exit"

\* C38: in the worker pool every item is claimed by one worker only, its
\* answer is stored at the item's own index, and when the pool returns
\* every item has been processed.
C38_EachItemOnce ==
  pool.pc = "running" =>
    /\ \A i \in 1..pool.n :
         pool.claimed[i] <= 1 /\ pool.storedFor[i] \in {0, i}
    /\ \A w1, w2 \in InFlight :
         w1 # w2 => pool.workers[w1].idx # pool.workers[w2].idx
    /\ AllWorkersDone =>
         \A i \in 1..pool.n :
           pool.claimed[i] = 1 /\ pool.storedFor[i] = i /\ pool.results[i] # "none"

\* A pool of two workers has gone through more items than it has workers,
\* with answers of both kinds, and is about to return.
C38_Witness ==
  /\ AllWorkersDone
  /\ pool.n = MaxPoolItems /\ Len(pool.workers) = ENRICH_CONCURRENCY
  /\ \E i, j \in 1..pool.n : pool.results[i] = "null" /\ pool.results[j] = "parsed"

\* C39: after a response that reports fewer than 3 requests remaining,
\* githubFetch issues its next request (a retry of the same call, or the
\* first request of the caller's next call) only once the reported reset
\* time plus 2 s has passed: whenever githubFetch is about to send a request
\* or has handed its result back, nothing is left of that wait.
C39_QuietUntilReset ==
  gf.pc \in {"idle", "fetch", "returned"} => gf.untilReset = 0

\* A 5xx or rate-limited response that reported a low quota with the reset
\* 30 s ahead has been slept out, and the retry is about to be sent.
C39_Witness ==
  /\ gf.pc = "fetch" /\ gf.attempt >= 1
  /\ gf.proactive = 32000 /\ gf.untilReset = 0
  /\ gf.status \in {403, 429, 500}

\* C40: while a worker of the pool sleeps out a 429 for its item, every
\* other worker can take its next step: a worker at the head of its loop
\* can take the next item (or leave), and a worker whose request is out can
\* receive the answer and complete its item.
C40_BackoffIsOwn ==
  \A w, v \in DOMAIN pool.workers :
    pool.pc = "running" /\ w # v /\ pool.workers[w].st = "backoff" =>
      /\ pool.workers[v].st = "ready" => ENABLED WorkerTake(v)
      /\ pool.workers[v].st = "call" => ENABLED WorkerSettle(v)

\* A worker is still in the 429 sleep of its item while the other worker
\* has completed two items and holds a third.
C40_Witness ==
  \E w, v \in DOMAIN pool.workers :
    /\ w # v
    /\ pool.workers[w].st = "backoff" /\ pool.workers[w].overtaken >= 2
    /\ pool.workers[v].st = "call"
    /\ pool.results[pool.workers[w].idx] = "none"

====
